---- MODULE Spec2Model ----
(***************************************************************************)
(* A model of the BLE transport of tsla-ble-dash (lib/bluetooth.ts, class  *)
(* TeslaBleTransport): the serialized write chain with its block-size and  *)
(* write-mode recovery, and the inbound reassembly buffer.                 *)
(***************************************************************************)
EXTENDS Integers, Sequences, FiniteSets, TLC

\* ------------------------------------------------------------------------
\* Program constants
\* ------------------------------------------------------------------------

\* lib/constants.ts is imported by bluetooth.ts; the values below are the
\* ones the specification and the architecture notes give.
HEADER_SIZE == 2
DEFAULT_MAX_MESSAGE_SIZE == 2048
DEFAULT_RX_TIMEOUT_MS == 1000
WEB_BLUETOOTH_DEFAULT_BLOCK == 244

MIN_BLOCK_LENGTH == 20

\* ------------------------------------------------------------------------
\* Bounds of the model
\* ------------------------------------------------------------------------

\* send() calls made on the transport in one behaviour.
MaxSends == 2
\* Writes the characteristic rejects in one behaviour.
MaxFaults == 2
\* Fragments notified to the transport in one behaviour.
MaxFragments == 3
\* The longest byte arrays compared by timingSafeEqual.
MaxTagLength == 3
\* connect() calls made on the transport in one behaviour.
MaxConnects == 1
\* disconnect() calls made on the transport in one behaviour.
MaxDisconnects == 1
\* Clicks on Verify Enrollment whose handlers run in one behaviour.
MaxClicks == 2
\* connect() calls, and disconnect() calls, in a behaviour that reconnects.
MaxReconnects == 3
\* Inputs of the user to auto refresh (start, stop, interval change) in one
\* behaviour.
MaxRefreshInputs == 4
\* setTimeout calls of the refresh loop in one behaviour.
MaxTimers == 4
\* Inputs of the user to the Latency page (clicks, showing and hiding the
\* page) in one behaviour.
MaxPreviewInputs == 6
\* Camera streams getUserMedia hands out in one behaviour.
MaxStreams == 3
\* sendCommand calls made on the session in one behaviour.
MaxCommands == 4
\* Handshakes the session completes in one behaviour.
MaxHandshakes == 2

\* ------------------------------------------------------------------------
\* Values
\* ------------------------------------------------------------------------

Min(a, b) == IF a < b THEN a ELSE b
Max(a, b) == IF a > b THEN a ELSE b

\* The bytes of the payload of the n-th send() of a behaviour: len bytes
\* that differ from one position to the next and from one send to the next.
PayloadOf(len, n) == [i \in 1..len |-> (i * 7 + n * 13) % 256]

\* Payload lengths passed to send(): a packet of exactly one block at the
\* floor (18), a packet of several blocks that ends in a partial block (64),
\* and a payload over the maximum.
SendLengths == {18, 64, DEFAULT_MAX_MESSAGE_SIZE + 1}

\* TeslaBleTransportOptions.preferredBlockLength: absent, or a number
\* (below the floor, between the floor and the default, above the default).
BlockLengthOptions ==
  { [given |-> FALSE, preferredBlockLength |-> 0],
    [given |-> TRUE, preferredBlockLength |-> 10],
    [given |-> TRUE, preferredBlockLength |-> 64],
    [given |-> TRUE, preferredBlockLength |-> WEB_BLUETOOTH_DEFAULT_BLOCK + 1] }

\* A BluetoothRemoteGATTCharacteristic as the transport reads it: the two
\* properties flags ("absent" when properties does not hold the key) and
\* which of the write functions exist.
NullChar ==
  [present |-> FALSE, write |-> "absent", writeWithoutResponse |-> "absent",
   hasWithResponse |-> FALSE, hasWithoutResponse |-> FALSE, hasWriteValue |-> FALSE]

Char(w, wo, fr, fo, fv) ==
  [present |-> TRUE, write |-> w, writeWithoutResponse |-> wo,
   hasWithResponse |-> fr, hasWithoutResponse |-> fo, hasWriteValue |-> fv]

\* The characteristics a GATT service hands to connect().
Characteristics ==
  { Char("true", "true", TRUE, TRUE, TRUE),        \* both modes
    Char("false", "true", TRUE, TRUE, FALSE),      \* flags say without-response only
    Char("absent", "true", FALSE, TRUE, FALSE),    \* without-response only
    Char("true", "false", TRUE, FALSE, FALSE),     \* with-response only
    Char("absent", "absent", FALSE, FALSE, TRUE),  \* legacy writeValue only
    Char("absent", "absent", FALSE, FALSE, FALSE) }\* no write function

\* Errors. A DOMException is named by its name; the two Errors the transport
\* throws itself are not DOMExceptions.
DOMExceptions == {"DataError", "NotSupportedError", "NetworkError"}
\* What a write function of the characteristic may reject with.
WriteErrors == DOMExceptions \cup {"TypeError"}
NotReady == "TX characteristic not ready"
NoWriteSupport == "TX characteristic does not support writes"

VARIABLES
  txChar,        \* this.txChar (NullChar for null)
  rxChar,        \* this.rxChar is not null
  blockLength,   \* this.blockLength
  writeMode,     \* this.writeMode
  writeChain,    \* the tasks chained on this.writeChain, in submission order
  offset,        \* writePacketOnce's offset in the running task's packet
  inflight,      \* the write the running task awaits
  options,       \* this.options (preferredBlockLength)
  connectPc,     \* where the connect() in progress awaits
  disconnectPc,  \* where the disconnect() in progress awaits
  log,           \* history: every write the characteristic settled
  lastSend,      \* history: how the latest send() call went on
  budget,        \* the calls and events the environment may still make
  device,        \* this.device is not null
  server,        \* this.server: "null", or "connected"
  buffer,        \* this.buffer
  lastNotification, \* this.lastNotification
  clock,         \* performance.now()
  messages,      \* history: the MESSAGE_EVENTs dispatched, in order
  bufferFrom,    \* history: for each byte of buffer, the fragment it came in
  arrivals,      \* history: when each fragment arrived
  delivered,     \* history: the accepted writes looped back as fragments
  stale,         \* history: the fragments whose buffered bytes were dropped as stale
  oversized      \* history: the fragments at which flush() met a length over the maximum

txVars ==
  <<txChar, rxChar, blockLength, writeMode, writeChain, offset, inflight, options,
    connectPc, disconnectPc, log, lastSend, budget, device, server>>

rxVars ==
  <<buffer, lastNotification, clock, messages, bufferFrom, arrivals, delivered, stale,
    oversized>>

\* The functions of lib/crypto.ts keep no state: a call is its arguments and
\* what it returned or threw.
VARIABLES
  args,          \* the function called and its arguments
  ret            \* what the call returned or threw, once it is done

cryptoVars == <<args, ret>>

\* The SessionContext of lib/session.ts, as spec.md describes it.
VARIABLES
  sessionEpoch,   \* the handshakes done: each starts an epoch (0 before the first)
  sendCounter,    \* the send counter of the SessionContext
  initialCounter, \* history: the counter the handshake of this epoch set
  commands        \* history: every sendCommand, its epoch, counter and outcome

sessionVars == <<sessionEpoch, sendCounter, initialCounter, commands>>

\* The BluetoothDevice the transport connects to, and its events.
VARIABLES
  listeners,        \* the gattserverdisconnected listeners connect() added to the device
  gattConnected,    \* device.gatt.connected
  disconnectEvents  \* history: the DISCONNECT_EVENTs dispatched at each GATT disconnection

eventVars == <<listeners, gattConnected, disconnectEvents>>

\* The Verify Enrollment button of app/ui.ts.
VARIABLES
  handlers,       \* the click handlers of verifyEnrollBtn that were started
  disabled        \* verifyEnrollBtn.button.disabled, enrollBtn.button.disabled

verifyVars == <<handlers, disabled>>

\* What the transport, the functions of lib/crypto.ts, the session and the
\* Verify Enrollment button each leave alone.
\* Auto refresh of the debug page of app/ui.ts.
VARIABLES
  autoRefreshActive,  \* autoRefreshActive
  autoRefreshTimer,   \* autoRefreshTimer: a timer handle, 0 for null
  pendingTimers,      \* the handles of the refresh timers set and neither expired nor cleared
  autoFetches,        \* runAutoRefreshCycle calls awaiting performVehicleStateFetch('auto')
  timersSet,          \* history: setTimeout calls so far (the last handle given out)
  stoppedByError,     \* history: an automatic fetch failed, and startAutoRefresh() was not called since
  refreshInputs       \* the inputs of the user left

refreshVars == <<autoRefreshActive, autoRefreshTimer, pendingTimers, autoFetches,
                 timersSet, stoppedByError, refreshInputs>>

\* The camera preview of the Latency page of app/ui/latency.ts.
VARIABLES
  currentStream,       \* currentStream: a MediaStream, 0 for null
  currentFacingMode,   \* currentFacingMode
  isStartingPreview,   \* isStartingPreview
  cameraSupported,     \* what isCameraSupported() returns
  pendingGetUserMedia, \* startPreview awaits navigator.mediaDevices.getUserMedia
  liveStreams,         \* the MediaStreams handed out whose tracks were not stopped
  streamsGranted,      \* history: the streams getUserMedia handed out so far
  pageHidden,          \* history: the page was hidden, and not shown since
  previewInputs        \* the inputs of the user left

previewVars == <<currentStream, currentFacingMode, isStartingPreview, cameraSupported,
                 pendingGetUserMedia, liveStreams, streamsGranted, pageHidden,
                 previewInputs>>

besidesTransport == <<cryptoVars, sessionVars, verifyVars, refreshVars, previewVars>>
besidesCrypto == <<txVars, rxVars, eventVars, sessionVars, verifyVars, refreshVars,
                   previewVars>>
besidesSession == <<txVars, rxVars, eventVars, cryptoVars, verifyVars, refreshVars,
                    previewVars>>
besidesVerify == <<txVars, rxVars, eventVars, cryptoVars, sessionVars, refreshVars,
                   previewVars>>
besidesRefresh == <<txVars, rxVars, eventVars, cryptoVars, sessionVars, verifyVars,
                    previewVars>>
besidesPreview == <<txVars, rxVars, eventVars, cryptoVars, sessionVars, verifyVars,
                    refreshVars>>

vars == <<txVars, rxVars, eventVars, cryptoVars, sessionVars, verifyVars, refreshVars,
          previewVars>>

\* No write awaited. In a write awaited, cut says that the GATT server
\* disconnected since the write function was called, or was disconnected then.
NoWrite == [active |-> FALSE, task |-> 0, block |-> <<>>, fn |-> "none", cut |-> FALSE]

\* The write awaited, if any, after the GATT server disconnected.
Cut(w) == IF w.active THEN [w EXCEPT !.cut = TRUE] ELSE w

\* ------------------------------------------------------------------------
\* Write mode and error recovery (pure parts of TeslaBleTransport)
\* ------------------------------------------------------------------------

supportsWriteWithoutResponse(c) ==
  IF ~c.present THEN FALSE
  ELSE IF c.writeWithoutResponse = "false" THEN FALSE
  ELSE c.hasWithoutResponse

supportsWriteWithResponse(c) ==
  IF ~c.present THEN FALSE
  ELSE IF c.write = "false" THEN FALSE
  ELSE c.hasWithResponse

determineWriteMode(c) ==
  IF c.write = "true" \/ supportsWriteWithResponse(c) THEN "with-response"
  ELSE IF c.writeWithoutResponse = "true" \/ supportsWriteWithoutResponse(c)
       THEN "without-response"
  ELSE "with-response"

\* tryFallbackWriteMode that only falls back from with-response.
tryFallbackWriteModeOneWay(c, mode) ==
  IF c.present /\ mode = "with-response" /\ supportsWriteWithoutResponse(c)
  THEN [switched |-> TRUE, writeMode |-> "without-response"]
  ELSE [switched |-> FALSE, writeMode |-> mode]

\* tryFallbackWriteMode: whether it switched, and this.writeMode afterwards.
tryFallbackWriteMode(c, mode) ==
  IF ~c.present THEN [switched |-> FALSE, writeMode |-> mode]
  ELSE IF mode = "with-response" /\ supportsWriteWithoutResponse(c)
       THEN [switched |-> TRUE, writeMode |-> "without-response"]
  ELSE IF mode = "without-response" /\ supportsWriteWithResponse(c)
       THEN [switched |-> TRUE, writeMode |-> "with-response"]
  ELSE [switched |-> FALSE, writeMode |-> mode]

\* writeChunk up to its await: the function it calls and this.writeMode then,
\* or the Error it throws.
RECURSIVE writeChunk(_, _)
writeChunk(c, mode) ==
  IF ~c.present THEN [kind |-> "throw", error |-> NotReady, fn |-> "none", writeMode |-> mode]
  ELSE IF mode = "with-response" /\ c.hasWithResponse
       THEN [kind |-> "call", error |-> "", fn |-> "writeValueWithResponse", writeMode |-> mode]
  ELSE IF mode = "without-response" /\ c.hasWithoutResponse
       THEN [kind |-> "call", error |-> "", fn |-> "writeValueWithoutResponse", writeMode |-> mode]
  ELSE LET fb == tryFallbackWriteMode(c, mode) IN
       IF fb.switched THEN writeChunk(c, fb.writeMode)
       ELSE IF c.hasWriteValue
            THEN [kind |-> "call", error |-> "", fn |-> "writeValue", writeMode |-> mode]
       ELSE [kind |-> "throw", error |-> NoWriteSupport, fn |-> "none", writeMode |-> mode]

\* handleWriteError that gives up on a DataError above the floor.
handleWriteErrorNoRetry(error, c, bl, mode) ==
  IF error = "NotSupportedError"
  THEN LET fb == tryFallbackWriteMode(c, mode) IN
       [retry |-> fb.switched, blockLength |-> bl, writeMode |-> fb.writeMode]
  ELSE [retry |-> FALSE, blockLength |-> bl, writeMode |-> mode]

\* handleWriteError that halves the block length on a DataError.
handleWriteErrorHalving(error, c, bl, mode) ==
  IF error = "DataError"
  THEN IF bl <= MIN_BLOCK_LENGTH
       THEN [retry |-> FALSE, blockLength |-> bl, writeMode |-> mode]
       ELSE [retry |-> TRUE, blockLength |-> Max(MIN_BLOCK_LENGTH, bl \div 2),
             writeMode |-> mode]
  ELSE IF error = "NotSupportedError"
       THEN LET fb == tryFallbackWriteMode(c, mode) IN
            [retry |-> fb.switched, blockLength |-> bl, writeMode |-> fb.writeMode]
  ELSE [retry |-> FALSE, blockLength |-> bl, writeMode |-> mode]

\* handleWriteError that retries a DataError without lowering the block length.
handleWriteErrorNoClamp(error, c, bl, mode) ==
  IF error = "DataError"
  THEN [retry |-> bl > MIN_BLOCK_LENGTH, blockLength |-> bl, writeMode |-> mode]
  ELSE IF error = "NotSupportedError"
       THEN LET fb == tryFallbackWriteMode(c, mode) IN
            [retry |-> fb.switched, blockLength |-> bl, writeMode |-> fb.writeMode]
  ELSE [retry |-> FALSE, blockLength |-> bl, writeMode |-> mode]

\* handleWriteError whose floor test is < for <=.
handleWriteErrorBelowFloor(error, c, bl, mode) ==
  IF error = "DataError"
  THEN IF bl < MIN_BLOCK_LENGTH
       THEN [retry |-> FALSE, blockLength |-> bl, writeMode |-> mode]
       ELSE [retry |-> TRUE, blockLength |-> MIN_BLOCK_LENGTH, writeMode |-> mode]
  ELSE IF error = "NotSupportedError"
       THEN LET fb == tryFallbackWriteMode(c, mode) IN
            [retry |-> fb.switched, blockLength |-> bl, writeMode |-> fb.writeMode]
  ELSE [retry |-> FALSE, blockLength |-> bl, writeMode |-> mode]

\* handleWriteError that retries after any DOMException.
handleWriteErrorRetryAll(error, c, bl, mode) ==
  IF error \notin DOMExceptions
  THEN [retry |-> FALSE, blockLength |-> bl, writeMode |-> mode]
  ELSE IF error = "DataError"
       THEN IF bl <= MIN_BLOCK_LENGTH
            THEN [retry |-> FALSE, blockLength |-> bl, writeMode |-> mode]
            ELSE [retry |-> TRUE, blockLength |-> MIN_BLOCK_LENGTH, writeMode |-> mode]
  ELSE IF error = "NotSupportedError"
       THEN LET fb == tryFallbackWriteMode(c, mode) IN
            [retry |-> fb.switched, blockLength |-> bl, writeMode |-> fb.writeMode]
  ELSE [retry |-> TRUE, blockLength |-> bl, writeMode |-> mode]

\* handleWriteError: whether writePacket retries, and this.blockLength and
\* this.writeMode afterwards.
handleWriteError(error, c, bl, mode) ==
  IF error \notin DOMExceptions
  THEN [retry |-> FALSE, blockLength |-> bl, writeMode |-> mode]
  ELSE IF error = "DataError"
       THEN IF bl <= MIN_BLOCK_LENGTH
            THEN [retry |-> FALSE, blockLength |-> bl, writeMode |-> mode]
            ELSE [retry |-> TRUE, blockLength |-> MIN_BLOCK_LENGTH, writeMode |-> mode]
  ELSE IF error = "NotSupportedError"
       THEN LET fb == tryFallbackWriteMode(c, mode) IN
            [retry |-> fb.switched, blockLength |-> bl, writeMode |-> fb.writeMode]
  ELSE [retry |-> FALSE, blockLength |-> bl, writeMode |-> mode]

\* The packet with its length prefix little-endian.
PacketLittleEndian(payload) ==
  << Len(payload) % 256, (Len(payload) \div 256) % 256 >> \o payload

\* The packet send() builds: the payload's length, big-endian on HEADER_SIZE
\* bytes, then the payload.
Packet(payload) ==
  << (Len(payload) \div 256) % 256, Len(payload) % 256 >> \o payload

\* The block writePacketOnce writes at offset off.
Block(packet, off, bl) == SubSeq(packet, off + 1, Min(off + bl, Len(packet)))

\* writePacketOnce that writes without looking whether this.txChar is set.
writePacketOnceUnchecked(packet, off, c, bl, mode) ==
  [kind |-> "await", error |-> "", block |-> Block(packet, off, bl), fn |-> "writeValue",
   offset |-> off, blockLength |-> bl, writeMode |-> mode]

\* writePacketOnce from offset off up to its next await: the write it
\* starts, or the Error it throws.
writePacketOnce(packet, off, c, bl, mode) ==
  IF ~c.present
  THEN [kind |-> "throw", error |-> NotReady, block |-> <<>>, fn |-> "none",
        offset |-> off, blockLength |-> bl, writeMode |-> mode]
  ELSE LET w == writeChunk(c, mode) IN
       [kind |-> IF w.kind = "call" THEN "await" ELSE "throw", error |-> w.error,
        block |-> Block(packet, off, bl), fn |-> w.fn,
        offset |-> off, blockLength |-> bl, writeMode |-> w.writeMode]

\* writePacket's loop from the top up to its next await: the write it awaits,
\* or the error it rejects with.
RECURSIVE writePacket(_, _, _, _)
writePacket(packet, c, bl, mode) ==
  LET r == writePacketOnce(packet, 0, c, bl, mode) IN
  IF r.kind = "await" THEN r
  ELSE LET h == handleWriteError(r.error, c, r.blockLength, r.writeMode) IN
       IF h.retry THEN writePacket(packet, c, h.blockLength, h.writeMode)
       ELSE [r EXCEPT !.kind = "reject"]

\* writePacket's catch of an error thrown at its await.
catchWriteError(error, packet, c, bl, mode) ==
  LET h == handleWriteError(error, c, bl, mode) IN
  IF h.retry THEN writePacket(packet, c, h.blockLength, h.writeMode)
  ELSE [kind |-> "reject", error |-> error, block |-> <<>>, fn |-> "none",
        offset |-> 0, blockLength |-> h.blockLength, writeMode |-> h.writeMode]

\* writePacketOnce after a write resolved: the next block, or the end.
continueWritePacket(packet, off, c, bl, mode) ==
  IF off + bl < Len(packet)
  THEN LET r == writePacketOnce(packet, off + bl, c, bl, mode) IN
       IF r.kind = "await" THEN r
       ELSE LET h == handleWriteError(r.error, c, r.blockLength, r.writeMode) IN
            IF h.retry THEN writePacket(packet, c, h.blockLength, h.writeMode)
            ELSE [r EXCEPT !.kind = "reject"]
  ELSE [kind |-> "resolve", error |-> "", block |-> <<>>, fn |-> "none",
        offset |-> 0, blockLength |-> bl, writeMode |-> mode]

\* ------------------------------------------------------------------------
\* send() and the write chain
\* ------------------------------------------------------------------------

Settled(t) == t.status \in {"resolved", "rejected"}
Running == {i \in 1..Len(writeChain) : writeChain[i].status = "running"}
Queued == {i \in 1..Len(writeChain) : writeChain[i].status = "queued"}
\* The task chained last, for the one chained first.
LastQueued == CHOOSE i \in Queued : \A j \in Queued : i >= j
\* this.writeChain.then(...): the tasks run in the order they were chained.
FirstQueued == CHOOSE i \in Queued : \A j \in Queued : i <= j

\* What a step of task i that ended as r (a result of writePacket,
\* catchWriteError or continueWritePacket) leaves behind. A task that
\* settles keeps, as history, this.blockLength and this.writeMode then.
Proceed(i, r) ==
  /\ blockLength' = r.blockLength
  /\ writeMode' = r.writeMode
  /\ offset' = r.offset
  /\ inflight' = IF r.kind = "await"
                 THEN [active |-> TRUE, task |-> i, block |-> r.block, fn |-> r.fn,
                       cut |-> ~gattConnected]
                 ELSE NoWrite
  /\ writeChain' =
       [writeChain EXCEPT ![i] =
          IF r.kind = "await" THEN [@ EXCEPT !.status = "running"]
          ELSE [@ EXCEPT !.status = IF r.kind = "resolve" THEN "resolved" ELSE "rejected",
                         !.error = r.error,
                         !.endBlockLength = r.blockLength,
                         !.endWriteMode = r.writeMode]]

\* send(payload) without the test of the payload's length.
sendAnyLength(len) ==
  /\ budget.sends > 0
  /\ budget' = [budget EXCEPT !.sends = @ - 1]
  /\ IF ~txChar.present
     THEN /\ lastSend' = NotReady
          /\ UNCHANGED writeChain
     ELSE /\ lastSend' = "chained"
          /\ writeChain' = Append(writeChain,
               [id |-> Len(writeChain) + 1,
                payload |-> PayloadOf(len, Len(writeChain) + 1),
                packet |-> Packet(PayloadOf(len, Len(writeChain) + 1)),
                status |-> "queued", error |-> "",
                char |-> txChar, steady |-> TRUE,
                endBlockLength |-> 0, endWriteMode |-> ""])
  /\ UNCHANGED <<txChar, rxChar, blockLength, writeMode, offset, inflight, options,
                 connectPc, disconnectPc, log, device, server, rxVars>>
  /\ UNCHANGED eventVars
  /\ UNCHANGED besidesTransport

\* send(payload), to its await: it throws, or chains a task on writeChain.
send(len) ==
  /\ budget.sends > 0
  /\ budget' = [budget EXCEPT !.sends = @ - 1]
  /\ IF ~txChar.present
     THEN /\ lastSend' = NotReady
          /\ UNCHANGED writeChain
     ELSE IF len > DEFAULT_MAX_MESSAGE_SIZE
     THEN /\ lastSend' = "Payload too large"
          /\ UNCHANGED writeChain
     ELSE /\ lastSend' = "chained"
          /\ writeChain' = Append(writeChain,
               [id |-> Len(writeChain) + 1,
                payload |-> PayloadOf(len, Len(writeChain) + 1),
                packet |-> Packet(PayloadOf(len, Len(writeChain) + 1)),
                status |-> "queued", error |-> "",
                char |-> txChar, steady |-> TRUE,
                endBlockLength |-> 0, endWriteMode |-> ""])
  /\ UNCHANGED <<txChar, rxChar, blockLength, writeMode, offset, inflight, options,
                 connectPc, disconnectPc, log, device, server, rxVars>>
  /\ UNCHANGED eventVars
  /\ UNCHANGED besidesTransport

\* The next task of a chain that does not swallow rejections
\* (this.writeChain = task): after a task that rejected, the next one rejects
\* with the same error and writes nothing.
startTaskUnswallowed ==
  /\ Running = {}
  /\ Queued # {}
  /\ LET i == FirstQueued IN
     /\ Proceed(i, IF i > 1 /\ writeChain[i - 1].status = "rejected"
                   THEN [kind |-> "reject", error |-> writeChain[i - 1].error,
                         block |-> <<>>, fn |-> "none", offset |-> 0,
                         blockLength |-> blockLength, writeMode |-> writeMode]
                   ELSE writePacket(writeChain[i].packet, txChar, blockLength, writeMode))
  /\ UNCHANGED <<txChar, rxChar, options, connectPc, disconnectPc, log, lastSend,
                 budget, device, server, rxVars>>
  /\ UNCHANGED eventVars
  /\ UNCHANGED besidesTransport

\* writeChain.then(() => this.writePacket(packet)): the next task starts
\* once every task chained before it has settled.
startTask ==
  /\ Running = {}
  /\ Queued # {}
  /\ LET i == FirstQueued IN
     /\ Proceed(i, writePacket(writeChain[i].packet, txChar, blockLength, writeMode))
  /\ UNCHANGED <<txChar, rxChar, options, connectPc, disconnectPc, log, lastSend,
                 budget, device, server, rxVars>>
  /\ UNCHANGED eventVars
  /\ UNCHANGED besidesTransport

\* History: the write awaited settled as outcome, and what handleWriteError
\* made of a rejection.
Settle(outcome) ==
  LET h == IF outcome = "ok"
           THEN [retry |-> FALSE, blockLength |-> blockLength, writeMode |-> writeMode]
           ELSE handleWriteError(outcome, txChar, blockLength, writeMode) IN
  Append(log, [task |-> inflight.task, offset |-> offset, block |-> inflight.block,
               fn |-> inflight.fn, outcome |-> outcome,
               blockLength |-> blockLength, writeMode |-> writeMode,
               retry |-> h.retry, thenBlockLength |-> h.blockLength,
               thenWriteMode |-> h.writeMode])

\* The characteristic accepts the write awaited: writePacketOnce goes on.
\* The platform resolves a write only if the GATT server stayed connected
\* since the write function was called.
writeAccepted ==
  /\ inflight.active
  /\ ~inflight.cut
  /\ log' = Settle("ok")
  /\ Proceed(inflight.task,
             continueWritePacket(writeChain[inflight.task].packet, offset,
                                 txChar, blockLength, writeMode))
  /\ UNCHANGED <<txChar, rxChar, options, connectPc, disconnectPc, lastSend,
                 budget, device, server, rxVars>>
  /\ UNCHANGED eventVars
  /\ UNCHANGED besidesTransport

\* The characteristic rejects the write awaited: writePacket catches.
writeRejected(error) ==
  /\ inflight.active
  /\ budget.faults > 0
  /\ budget' = [budget EXCEPT !.faults = @ - 1]
  /\ log' = Settle(error)
  /\ Proceed(inflight.task,
             catchWriteError(error, writeChain[inflight.task].packet,
                             txChar, blockLength, writeMode))
  /\ UNCHANGED <<txChar, rxChar, options, connectPc, disconnectPc, lastSend,
                 device, server, rxVars>>
  /\ UNCHANGED eventVars
  /\ UNCHANGED besidesTransport

\* The GATT server disconnected under the write awaited: the platform rejects
\* its promise with a NetworkError, and writePacket catches.
writeAborted ==
  /\ inflight.active
  /\ inflight.cut
  /\ log' = Settle("NetworkError")
  /\ Proceed(inflight.task,
             catchWriteError("NetworkError", writeChain[inflight.task].packet,
                             txChar, blockLength, writeMode))
  /\ UNCHANGED <<txChar, rxChar, options, connectPc, disconnectPc, lastSend,
                 budget, device, server, rxVars>>
  /\ UNCHANGED eventVars
  /\ UNCHANGED besidesTransport

\* ------------------------------------------------------------------------
\* connect() and disconnect()
\* ------------------------------------------------------------------------

\* History: connect() or disconnect() changed the characteristic, the block
\* length or the write mode under the tasks that have not settled.
Disturbed(chain) ==
  [i \in DOMAIN chain |->
     IF Settled(chain[i]) THEN chain[i] ELSE [chain[i] EXCEPT !.steady = FALSE]]

\* connect(existing), to its first await.
connect(existing) ==
  /\ connectPc = "idle"
  /\ budget.connects > 0
  /\ budget' = [budget EXCEPT !.connects = @ - 1]
  /\ IF existing
     THEN device' = TRUE /\ connectPc' = "gatt.connect" /\ listeners' = listeners + 1
     ELSE UNCHANGED <<device, listeners>> /\ connectPc' = "requestDevice"
  /\ UNCHANGED <<gattConnected, disconnectEvents>>
  /\ UNCHANGED <<txChar, rxChar, blockLength, writeMode, writeChain, offset, inflight,
                 options, disconnectPc, log, lastSend, server, rxVars>>
  /\ UNCHANGED besidesTransport

\* requestDevice() resolved, with the device (the page is handed the same
\* BluetoothDevice object each time): the listener is added.
connectDevice ==
  /\ connectPc = "requestDevice"
  /\ device' = TRUE
  /\ connectPc' = "gatt.connect"
  /\ listeners' = listeners + 1
  /\ UNCHANGED <<gattConnected, disconnectEvents>>
  /\ UNCHANGED <<txChar, rxChar, blockLength, writeMode, writeChain, offset, inflight,
                 options, disconnectPc, log, lastSend, budget, server, rxVars>>
  /\ UNCHANGED besidesTransport

\* device.gatt.connect() resolved.
connectServer ==
  /\ connectPc = "gatt.connect"
  /\ server' = "connected"
  /\ connectPc' = "getPrimaryService"
  /\ gattConnected' = TRUE
  /\ UNCHANGED <<listeners, disconnectEvents>>
  /\ UNCHANGED <<txChar, rxChar, blockLength, writeMode, writeChain, offset, inflight,
                 options, disconnectPc, log, lastSend, budget, device, rxVars>>
  /\ UNCHANGED besidesTransport

\* server.getPrimaryService() resolved.
connectService ==
  /\ connectPc = "getPrimaryService"
  /\ connectPc' = "getCharacteristic.tx"
  /\ UNCHANGED <<txChar, rxChar, blockLength, writeMode, writeChain, offset, inflight,
                 options, disconnectPc, log, lastSend, budget, device, server,
                 rxVars>>
  /\ UNCHANGED eventVars
  /\ UNCHANGED besidesTransport

\* service.getCharacteristic(TESLA_TX_CHAR_UUID) resolved with c.
connectTx(c) ==
  /\ connectPc = "getCharacteristic.tx"
  /\ txChar' = c
  /\ connectPc' = "getCharacteristic.rx"
  /\ writeChain' = Disturbed(writeChain)
  /\ UNCHANGED <<rxChar, blockLength, writeMode, offset, inflight,
                 options, disconnectPc, log, lastSend, budget, device, server,
                 rxVars>>
  /\ UNCHANGED eventVars
  /\ UNCHANGED besidesTransport

\* The block length connect() would set without the floor.
connectBlockLengthNoFloor(o) ==
  IF o.given THEN o.preferredBlockLength ELSE WEB_BLUETOOTH_DEFAULT_BLOCK

\* The block length connect() sets.
connectBlockLength(o) ==
  Max(MIN_BLOCK_LENGTH,
      IF o.given THEN o.preferredBlockLength ELSE WEB_BLUETOOTH_DEFAULT_BLOCK)

\* service.getCharacteristic(TESLA_RX_CHAR_UUID) resolved.
connectRx ==
  /\ connectPc = "getCharacteristic.rx"
  /\ rxChar' = TRUE
  /\ writeMode' = determineWriteMode(txChar)
  /\ blockLength' = connectBlockLength(options)
  /\ connectPc' = "startNotifications"
  /\ writeChain' = Disturbed(writeChain)
  /\ UNCHANGED <<txChar, offset, inflight, options, disconnectPc, log,
                 lastSend, budget, device, server, rxVars>>
  /\ UNCHANGED eventVars
  /\ UNCHANGED besidesTransport

\* rxChar.startNotifications() resolved: connect() ends.
connectNotifications ==
  /\ connectPc = "startNotifications"
  /\ connectPc' = "idle"
  /\ UNCHANGED <<txChar, rxChar, blockLength, writeMode, writeChain, offset, inflight,
                 options, disconnectPc, log, lastSend, budget, device, server,
                 rxVars>>
  /\ UNCHANGED eventVars
  /\ UNCHANGED besidesTransport

\* The promise connect() awaits rejected: connect() throws.
connectFailed ==
  /\ connectPc # "idle"
  /\ connectPc' = "idle"
  /\ UNCHANGED <<txChar, rxChar, blockLength, writeMode, writeChain, offset, inflight,
                 options, disconnectPc, log, lastSend, budget, device, server,
                 rxVars>>
  /\ UNCHANGED eventVars
  /\ UNCHANGED besidesTransport

\* disconnect(), to its await of rxChar?.stopNotifications().
disconnect ==
  /\ disconnectPc = "idle"
  /\ budget.disconnects > 0
  /\ budget' = [budget EXCEPT !.disconnects = @ - 1]
  /\ disconnectPc' = "stopNotifications"
  /\ UNCHANGED <<txChar, rxChar, blockLength, writeMode, writeChain, offset, inflight,
                 options, connectPc, log, lastSend, device, server, rxVars>>
  /\ UNCHANGED eventVars
  /\ UNCHANGED besidesTransport

\* The device's GATT connection is lost: the device fires
\* gattserverdisconnected, and each listener connect() added dispatches a
\* DISCONNECT_EVENT.
gattserverdisconnected ==
  /\ gattConnected
  /\ gattConnected' = FALSE
  /\ disconnectEvents' = Append(disconnectEvents, listeners)
  /\ inflight' = Cut(inflight)
  /\ UNCHANGED <<txChar, rxChar, blockLength, writeMode, writeChain, offset, options,
                 connectPc, disconnectPc, log, lastSend, budget, device, server>>
  /\ UNCHANGED <<listeners, rxVars>>
  /\ UNCHANGED besidesTransport

\* stopNotifications() settled (a rejection is caught): disconnect() clears
\* the transport; server.disconnect() fires gattserverdisconnected.
disconnectClear ==
  /\ disconnectPc = "stopNotifications"
  /\ disconnectPc' = "idle"
  /\ rxChar' = FALSE
  /\ txChar' = NullChar
  /\ server' = "null"
  /\ device' = FALSE
  /\ buffer' = <<>>
  /\ bufferFrom' = <<>>
  /\ writeMode' = "with-response"
  /\ writeChain' = Disturbed(writeChain)
  /\ IF server # "null" /\ gattConnected
     THEN /\ gattConnected' = FALSE
          /\ disconnectEvents' = Append(disconnectEvents, listeners)
          /\ inflight' = Cut(inflight)
     ELSE UNCHANGED <<gattConnected, disconnectEvents, inflight>>
  /\ UNCHANGED listeners
  /\ UNCHANGED <<blockLength, offset, options, connectPc, log,
                 lastSend, budget, lastNotification, clock, messages, arrivals,
                 delivered, stale, oversized>>
  /\ UNCHANGED besidesTransport

\* ------------------------------------------------------------------------
\* onNotification() and flush()
\* ------------------------------------------------------------------------

\* The fragments notified: the empty chunk, halves of a prefix, a prefix
\* alone, whole frames, a frame between the end of one and the start of
\* another, a prefix that declares more than the maximum, and an empty
\* frame followed by such a prefix and one byte more.
Fragments ==
  { <<>>, <<0>>, <<1>>, <<0, 2>>, <<0, 0>>, <<0, 1, 5>>, <<5, 0, 1, 6, 0>>,
    <<(DEFAULT_MAX_MESSAGE_SIZE + 1) \div 256, (DEFAULT_MAX_MESSAGE_SIZE + 1) % 256>>,
    <<0, 0, (DEFAULT_MAX_MESSAGE_SIZE + 1) \div 256, (DEFAULT_MAX_MESSAGE_SIZE + 1) % 256, 7>> }

\* The time between two notifications: none, the threshold, and just over it.
Gaps == {0, DEFAULT_RX_TIMEOUT_MS, DEFAULT_RX_TIMEOUT_MS + 1}

\* onNotification that keeps the buffer whatever the silence before.
keepStale(buf, now, last) == buf

\* onNotification's stale-fragment test: what it keeps of the buffer.
dropStale(buf, now, last) ==
  IF now - last > DEFAULT_RX_TIMEOUT_MS THEN <<>> ELSE buf

\* flush() that returns after the first message it dispatches.
flushOnce(buf, pos) ==
  IF Len(buf) - pos < HEADER_SIZE
  THEN [rest |-> pos, cuts |-> <<>>, oversize |-> FALSE]
  ELSE LET length == buf[pos + 1] * 256 + buf[pos + 2] IN
       IF length > DEFAULT_MAX_MESSAGE_SIZE
       THEN [rest |-> Len(buf), cuts |-> <<>>, oversize |-> TRUE]
       ELSE IF Len(buf) - pos < HEADER_SIZE + length
       THEN [rest |-> pos, cuts |-> <<>>, oversize |-> FALSE]
       ELSE [rest |-> pos + HEADER_SIZE + length,
             cuts |-> <<[first |-> pos + HEADER_SIZE + 1,
                         last |-> pos + HEADER_SIZE + length]>>,
             oversize |-> FALSE]

\* flush() that returns on a length over the maximum and keeps the buffer.
RECURSIVE flushKeepsOversize(_, _)
flushKeepsOversize(buf, pos) ==
  IF Len(buf) - pos < HEADER_SIZE
  THEN [rest |-> pos, cuts |-> <<>>, oversize |-> FALSE]
  ELSE LET length == buf[pos + 1] * 256 + buf[pos + 2] IN
       IF length > DEFAULT_MAX_MESSAGE_SIZE
       THEN [rest |-> pos, cuts |-> <<>>, oversize |-> TRUE]
       ELSE IF Len(buf) - pos < HEADER_SIZE + length
       THEN [rest |-> pos, cuts |-> <<>>, oversize |-> FALSE]
       ELSE LET r == flushKeepsOversize(buf, pos + HEADER_SIZE + length) IN
            [rest |-> r.rest,
             cuts |-> <<[first |-> pos + HEADER_SIZE + 1,
                         last |-> pos + HEADER_SIZE + length]>> \o r.cuts,
             oversize |-> r.oversize]

\* flush() from position pos of the buffer: where what remains of the buffer
\* starts, the first and last position of each message dispatched, and
\* whether it returned on a length over the maximum.
RECURSIVE flush(_, _)
flush(buf, pos) ==
  IF Len(buf) - pos < HEADER_SIZE
  THEN [rest |-> pos, cuts |-> <<>>, oversize |-> FALSE]
  ELSE LET length == buf[pos + 1] * 256 + buf[pos + 2] IN
       IF length > DEFAULT_MAX_MESSAGE_SIZE
       THEN [rest |-> Len(buf), cuts |-> <<>>, oversize |-> TRUE]
       ELSE IF Len(buf) - pos < HEADER_SIZE + length
       THEN [rest |-> pos, cuts |-> <<>>, oversize |-> FALSE]
       ELSE LET r == flush(buf, pos + HEADER_SIZE + length) IN
            [rest |-> r.rest,
             cuts |-> <<[first |-> pos + HEADER_SIZE + 1,
                         last |-> pos + HEADER_SIZE + length]>> \o r.cuts,
             oversize |-> r.oversize]

\* onNotification(chunk) at time now. History: each message keeps the
\* fragments its frame (prefix and payload) came in.
receive(chunk, now) ==
  /\ clock' = now
  /\ arrivals' = Append(arrivals, now)
  /\ IF Len(chunk) = 0
     THEN UNCHANGED <<buffer, bufferFrom, lastNotification, messages, stale, oversized>>
     ELSE LET merged == dropStale(buffer, now, lastNotification) \o chunk
              from == dropStale(bufferFrom, now, lastNotification)
                        \o [j \in 1..Len(chunk) |-> Len(arrivals) + 1]
              f == flush(merged, 0) IN
          /\ lastNotification' = now
          /\ buffer' = SubSeq(merged, f.rest + 1, Len(merged))
          /\ bufferFrom' = SubSeq(from, f.rest + 1, Len(from))
          /\ messages' = messages \o
               [n \in 1..Len(f.cuts) |->
                  [detail |-> SubSeq(merged, f.cuts[n].first, f.cuts[n].last),
                   from |-> {from[j] : j \in (f.cuts[n].first - HEADER_SIZE)..f.cuts[n].last}]]
          /\ stale' = IF Len(merged) = Len(chunk)
                      THEN stale \cup {bufferFrom[j] : j \in DOMAIN bufferFrom}
                      ELSE stale
          /\ oversized' = IF f.oversize THEN oversized \cup {Len(arrivals) + 1}
                          ELSE oversized

\* A characteristicvaluechanged event with chunk as value, gap after the
\* event before it.
onNotification(chunk, gap) ==
  /\ budget.fragments > 0
  /\ budget' = [budget EXCEPT !.fragments = @ - 1]
  /\ receive(chunk, clock + gap)
  /\ UNCHANGED delivered
  /\ UNCHANGED <<txChar, rxChar, blockLength, writeMode, writeChain, offset, inflight,
                 options, connectPc, disconnectPc, log, lastSend, device, server>>
  /\ UNCHANGED eventVars
  /\ UNCHANGED besidesTransport

\* The writes the characteristic accepted, in order.
Wire == SelectSeq(log, LAMBDA e : e.outcome = "ok")

\* The peer sends the next accepted write back as a fragment, the longest
\* silence the threshold allows after the fragment before it.
loopback ==
  /\ delivered < Len(Wire)
  /\ delivered' = delivered + 1
  /\ receive(Wire[delivered + 1].block, clock + DEFAULT_RX_TIMEOUT_MS)
  /\ UNCHANGED txVars
  /\ UNCHANGED eventVars
  /\ UNCHANGED besidesTransport

\* ------------------------------------------------------------------------
\* lib/crypto.ts: bytes, numbers and text
\* ------------------------------------------------------------------------

\* A JavaScript number that is a non-negative integer, as its two 16-bit
\* halves and what is above them: the number is hi * 65536 + lo, and hi
\* is over 65535 for a number of 2^32 or more.
Number(hi, lo) == [hi |-> hi, lo |-> lo]

\* ToInt32 of the number: modulo 2^32, as a signed 32-bit integer.
ToInt32(n) ==
  LET h == n.hi % 65536 IN
  IF h >= 32768 THEN (h - 65536) * 65536 + n.lo ELSE h * 65536 + n.lo

\* x >> k on a signed 32-bit integer: the sign is kept.
ShiftRight(x, k) == x \div (2 ^ k)

\* x & 0xff on a signed 32-bit integer in two's complement.
And0xff(x) == x % 256

\* A value stored in a Uint8Array.
ToUint8(x) == x % 256

\* What a function that threw gives its caller.
Throw(error) == [threw |-> TRUE, error |-> error]

\* concat(...arrays)
RECURSIVE concat(_)
concat(arrays) ==
  IF Len(arrays) = 0 THEN <<>> ELSE Head(arrays) \o concat(Tail(arrays))

\* TextEncoder.encode(text), text as its code points (below 65536, no
\* surrogates): UTF-8.
RECURSIVE TextEncode(_)
TextEncode(text) ==
  IF Len(text) = 0 THEN <<>>
  ELSE LET cp == Head(text) IN
       (IF cp < 128 THEN <<cp>>
        ELSE IF cp < 2048 THEN <<192 + (cp \div 64), 128 + (cp % 64)>>
        ELSE <<224 + (cp \div 4096), 128 + ((cp \div 64) % 64), 128 + (cp % 64)>>)
       \o TextEncode(Tail(text))

\* encodeMetadata with the counter's bytes in big-endian order.
encodeMetadataBigEndian(metadata) ==
  LET counter == ToInt32(metadata.counter) IN
  concat(<< <<ToUint8(And0xff(ShiftRight(counter, 24))),
              ToUint8(And0xff(ShiftRight(counter, 16))),
              ToUint8(And0xff(ShiftRight(counter, 8))),
              ToUint8(And0xff(counter))>>,
            metadata.epoch,
            TextEncode(metadata.vin) >>)

\* encodeMetadata(metadata)
encodeMetadata(metadata) ==
  LET counter == ToInt32(metadata.counter) IN
  concat(<< <<ToUint8(And0xff(counter)),
              ToUint8(And0xff(ShiftRight(counter, 8))),
              ToUint8(And0xff(ShiftRight(counter, 16))),
              ToUint8(And0xff(ShiftRight(counter, 24)))>>,
            metadata.epoch,
            TextEncode(metadata.vin) >>)

\* The CommandMetadata values encoded: counters around the byte and sign
\* boundaries and one of 2^32 or more, an epoch of zeros and one of other
\* bytes, no VIN, a VIN and a text outside ASCII, and expiresAt absent or
\* given.
Counters ==
  { Number(hi, lo) : hi \in {0, 1, 255, 32767, 32768, 65535, 65536 + 2},
                     lo \in {0, 1, 255, 256, 65535} }
Epochs ==
  { [i \in 1..16 |-> 0], [i \in 1..16 |-> (i * 37 + 128) % 256] }
Vins == { <<>>, <<53, 89, 74, 51>>, <<86, 233, 8364>> }
Expiries ==
  { [given |-> FALSE, expiresAt |-> 0],
    [given |-> TRUE, expiresAt |-> 0],
    [given |-> TRUE, expiresAt |-> 1700000000] }
Metadatas ==
  { [vin |-> v, epoch |-> e, counter |-> c, expiresAt |-> x] :
      v \in Vins, e \in Epochs, c \in Counters, x \in Expiries }

\* x ^ y and x | y on bytes.
RECURSIVE BitXor(_, _)
BitXor(x, y) ==
  IF x = 0 /\ y = 0 THEN 0
  ELSE ((x + y) % 2) + 2 * BitXor(x \div 2, y \div 2)

RECURSIVE BitOr(_, _)
BitOr(x, y) ==
  IF x = 0 /\ y = 0 THEN 0
  ELSE (IF x % 2 = 1 \/ y % 2 = 1 THEN 1 ELSE 0) + 2 * BitOr(x \div 2, y \div 2)

\* A comparison that returns at the first position where the arrays differ.
RECURSIVE earlyExitLoop(_, _, _)
earlyExitLoop(a, b, i) ==
  IF i >= Len(a) THEN [value |-> TRUE, examined |-> i]
  ELSE IF a[i + 1] # b[i + 1] THEN [value |-> FALSE, examined |-> i + 1]
  ELSE earlyExitLoop(a, b, i + 1)

timingSafeEqualEarlyExit(a, b) ==
  IF Len(a) # Len(b) THEN [value |-> FALSE, examined |-> 0]
  ELSE earlyExitLoop(a, b, 0)

\* timingSafeEqual's loop from position i with diff so far: what it returns,
\* and, as history, how many positions it read.
RECURSIVE timingSafeEqualLoop(_, _, _, _)
timingSafeEqualLoop(a, b, i, diff) ==
  IF i < Len(a)
  THEN timingSafeEqualLoop(a, b, i + 1, BitOr(diff, BitXor(a[i + 1], b[i + 1])))
  ELSE [value |-> (diff = 0), examined |-> i]

\* timingSafeEqual(a, b)
timingSafeEqual(a, b) ==
  IF Len(a) # Len(b) THEN [value |-> FALSE, examined |-> 0]
  ELSE timingSafeEqualLoop(a, b, 0, 0)

\* The byte arrays compared: every array of up to MaxTagLength bytes among
\* 0, 1 and 128.
RECURSIVE ArraysOf(_, _)
ArraysOf(bytes, n) ==
  IF n = 0 THEN {<<>>}
  ELSE LET shorter == ArraysOf(bytes, n - 1) IN
       shorter \cup {Append(t, x) : t \in shorter, x \in bytes}
Tags == ArraysOf({0, 1, 128}, MaxTagLength)

\* ------------------------------------------------------------------------
\* lib/crypto.ts: PEM text (a string is the sequence of its character codes)
\* ------------------------------------------------------------------------

\* "-----BEGIN ", "-----END " and "-----"
PEM_BEGIN == <<45, 45, 45, 45, 45, 66, 69, 71, 73, 78, 32>>
PEM_END == <<45, 45, 45, 45, 45, 69, 78, 68, 32>>
PEM_DASHES == <<45, 45, 45, 45, 45>>

\* The characters String.prototype.trim and atob take for white space.
WhiteSpace == {9, 10, 11, 12, 13, 32}

\* The base64 alphabet A-Z a-z 0-9 + /, and the value of each character.
Base64Chars == (65..90) \cup (97..122) \cup (48..57) \cup {43, 47}
Base64Value(ch) ==
  IF ch \in 65..90 THEN ch - 65
  ELSE IF ch \in 97..122 THEN ch - 97 + 26
  ELSE IF ch \in 48..57 THEN ch - 48 + 52
  ELSE IF ch = 43 THEN 62 ELSE 63
Base64Char(v) ==
  IF v < 26 THEN 65 + v
  ELSE IF v < 52 THEN 97 + (v - 26)
  ELSE IF v < 62 THEN 48 + (v - 52)
  ELSE IF v = 62 THEN 43 ELSE 47

\* btoa(binary), binary with one character per byte.
RECURSIVE btoa(_)
btoa(bytes) ==
  IF Len(bytes) = 0 THEN <<>>
  ELSE IF Len(bytes) = 1
  THEN <<Base64Char(bytes[1] \div 4), Base64Char((bytes[1] % 4) * 16), 61, 61>>
  ELSE IF Len(bytes) = 2
  THEN <<Base64Char(bytes[1] \div 4),
         Base64Char((bytes[1] % 4) * 16 + (bytes[2] \div 16)),
         Base64Char((bytes[2] % 16) * 4), 61>>
  ELSE <<Base64Char(bytes[1] \div 4),
         Base64Char((bytes[1] % 4) * 16 + (bytes[2] \div 16)),
         Base64Char((bytes[2] % 16) * 4 + (bytes[3] \div 64)),
         Base64Char(bytes[3] % 64)>> \o btoa(SubSeq(bytes, 4, Len(bytes)))

\* The bytes of base64 characters without padding.
RECURSIVE base64Bytes(_)
base64Bytes(chars) ==
  LET v(i) == Base64Value(chars[i]) IN
  IF Len(chars) < 2 THEN <<>>
  ELSE IF Len(chars) = 2 THEN <<v(1) * 4 + (v(2) \div 16)>>
  ELSE IF Len(chars) = 3
  THEN <<v(1) * 4 + (v(2) \div 16), (v(2) % 16) * 16 + (v(3) \div 4)>>
  ELSE <<v(1) * 4 + (v(2) \div 16), (v(2) % 16) * 16 + (v(3) \div 4),
         (v(3) % 4) * 64 + v(4)>> \o base64Bytes(SubSeq(chars, 5, Len(chars)))

\* atob(data): the forgiving base64 decoding of the platform.
atob(data) ==
  LET text == SelectSeq(data, LAMBDA ch : ch \notin WhiteSpace)
      n == Len(text)
      padding == IF n % 4 = 0 /\ n >= 2 /\ text[n] = 61
                 THEN (IF text[n - 1] = 61 THEN 2 ELSE 1)
                 ELSE 0
      chars == SubSeq(text, 1, n - padding) IN
  IF Len(chars) % 4 = 1 \/ \E i \in DOMAIN chars : chars[i] \notin Base64Chars
  THEN Throw("InvalidCharacterError")
  ELSE [threw |-> FALSE, value |-> base64Bytes(chars)]

\* text.trim()
RECURSIVE trimStart(_)
trimStart(text) ==
  IF Len(text) > 0 /\ Head(text) \in WhiteSpace THEN trimStart(Tail(text)) ELSE text
RECURSIVE trimEnd(_)
trimEnd(text) ==
  IF Len(text) > 0 /\ text[Len(text)] \in WhiteSpace
  THEN trimEnd(SubSeq(text, 1, Len(text) - 1)) ELSE text
trim(text) == trimEnd(trimStart(text))

\* pattern is in text at position pos (from 1).
StartsWith(text, pos, pattern) ==
  /\ pos + Len(pattern) - 1 <= Len(text)
  /\ SubSeq(text, pos, pos + Len(pattern) - 1) = pattern

\* The length of the run of characters other than "-" from position pos.
RECURSIVE labelRun(_, _)
labelRun(text, pos) ==
  IF pos <= Len(text) /\ text[pos] # 45 THEN 1 + labelRun(text, pos + 1) ELSE 0

\* The match of /-----BEGIN ([^-]+)-----([\s\S]*?)-----END \1-----/ that
\* starts at position pos of pem.
pemMatchAt(pem, pos) ==
  LET from == pos + Len(PEM_BEGIN)
      run == labelRun(pem, from)
      label == SubSeq(pem, from, from + run - 1)
      body == from + run + Len(PEM_DASHES)
      closing == PEM_END \o label \o PEM_DASHES
      ends == {k \in body..Len(pem) : StartsWith(pem, k, closing)} IN
  IF /\ StartsWith(pem, pos, PEM_BEGIN)
     /\ run >= 1
     /\ StartsWith(pem, from + run, PEM_DASHES)
     /\ ends # {}
  THEN [found |-> TRUE, label |-> label,
        body |-> SubSeq(pem, body, (CHOOSE k \in ends : \A j \in ends : k <= j) - 1)]
  ELSE [found |-> FALSE]

\* decodePem(pem)
decodePem(pem) ==
  LET starts == {pos \in 1..Len(pem) : pemMatchAt(pem, pos).found} IN
  IF starts = {} THEN Throw("Invalid PEM format")
  ELSE LET match == pemMatchAt(pem, CHOOSE pos \in starts : \A j \in starts : pos <= j)
           body == SelectSeq(match.body,
                             LAMBDA ch : ch \in Base64Chars \cup {61})
           raw == atob(body) IN
       IF raw.threw THEN raw
       ELSE [threw |-> FALSE, label |-> trim(match.label), data |-> raw.value]

\* encoded.replace(/(.{64})/g, '$1\n')
RECURSIVE wrapLines(_)
wrapLines(encoded) ==
  IF Len(encoded) >= 64
  THEN SubSeq(encoded, 1, 64) \o <<10>> \o wrapLines(SubSeq(encoded, 65, Len(encoded)))
  ELSE encoded

\* arrayBufferToPem(label, data)
arrayBufferToPem(label, data) ==
  PEM_BEGIN \o label \o PEM_DASHES \o <<10>> \o wrapLines(btoa(data)) \o <<10>>
    \o PEM_END \o label \o PEM_DASHES

\* ------------------------------------------------------------------------
\* lib/crypto.ts: ASN.1 and the private-key containers
\* ------------------------------------------------------------------------

OID_EC_PUBLIC_KEY == <<42, 134, 72, 206, 61, 2, 1>>
OID_PRIME256V1 == <<42, 134, 72, 206, 61, 3, 1, 7>>

\* encodeAsn1Length that writes every length in one byte.
encodeAsn1LengthShortOnly(length) == <<ToUint8(length)>>

\* encodeAsn1Length's loop: the bytes of remaining, highest first.
RECURSIVE lengthBytesOf(_)
lengthBytesOf(remaining) ==
  IF remaining > 0
  THEN lengthBytesOf(ShiftRight(remaining, 8)) \o <<And0xff(remaining)>>
  ELSE <<>>

\* encodeAsn1Length(length)
encodeAsn1Length(length) ==
  IF length < 128 THEN <<ToUint8(length)>>
  ELSE LET bytes == lengthBytesOf(length) IN
       <<ToUint8(BitOr(128, Len(bytes)))>> \o bytes

\* encodeAsn1(tag, content)
encodeAsn1(tag, content) ==
  <<ToUint8(tag)>> \o encodeAsn1Length(Len(content)) \o content

\* (x << 8) | byte on a signed 32-bit integer: the low 24 bits of x move up
\* and bit 31 of the result is its sign.
ShiftLeft8Or(x, byte) ==
  LET low24 == x % 16777216 IN
  IF low24 >= 8388608 THEN (low24 - 16777216) * 256 + byte ELSE low24 * 256 + byte

\* decodeAsn1Length's loop over the count length bytes after offset.
RECURSIVE decodeLengthLoop(_, _, _, _, _)
decodeLengthLoop(bytes, off, count, i, length) ==
  IF i < count
  THEN decodeLengthLoop(bytes, off, count, i + 1, ShiftLeft8Or(length, bytes[off + 1 + i + 1]))
  ELSE length

\* decodeAsn1Length(bytes, offset)
decodeAsn1Length(bytes, off) ==
  IF off >= Len(bytes) THEN Throw("ASN.1 parse error: missing length")
  ELSE LET first == bytes[off + 1] IN
       IF first < 128 THEN [threw |-> FALSE, length |-> first, lengthBytes |-> 1]
       ELSE LET count == first % 128 IN
            IF count = 0 THEN Throw("ASN.1 parse error: indefinite length not supported")
            ELSE IF off + 1 + count > Len(bytes)
            THEN Throw("ASN.1 parse error: truncated length")
            ELSE [threw |-> FALSE,
                  length |-> decodeLengthLoop(bytes, off, count, 0, 0),
                  lengthBytes |-> 1 + count]

\* decodeAsn1Element(bytes, offset)
decodeAsn1Element(bytes, off) ==
  IF off >= Len(bytes) THEN Throw("ASN.1 parse error: offset out of range")
  ELSE LET l == decodeAsn1Length(bytes, off + 1) IN
       IF l.threw THEN l
       ELSE LET headerLength == 1 + l.lengthBytes
                contentStart == off + headerLength
                contentEnd == contentStart + l.length IN
            IF l.length > Len(bytes) - contentStart
            THEN Throw("ASN.1 parse error: length out of range")
            ELSE [threw |-> FALSE, tag |-> bytes[off + 1], length |-> l.length,
                  headerLength |-> headerLength, contentStart |-> contentStart,
                  contentEnd |-> contentEnd, totalLength |-> headerLength + l.length]

\* pkcs8ToEcPrivateKey(pkcs8)
pkcs8ToEcPrivateKey(pkcs8) ==
  LET root == decodeAsn1Element(pkcs8, 0) IN
  IF root.threw THEN root
  ELSE IF root.tag # 48 THEN Throw("Invalid PKCS#8 structure")
  ELSE LET version == decodeAsn1Element(pkcs8, root.contentStart) IN
  IF version.threw THEN version
  ELSE IF version.tag # 2 THEN Throw("Invalid PKCS#8 version")
  ELSE LET algorithm == decodeAsn1Element(pkcs8, version.contentEnd) IN
  IF algorithm.threw THEN algorithm
  ELSE IF algorithm.tag # 48 THEN Throw("Invalid PKCS#8 algorithm identifier")
  ELSE LET privateKey == decodeAsn1Element(pkcs8, algorithm.contentEnd) IN
  IF privateKey.threw THEN privateKey
  ELSE IF privateKey.tag # 4 THEN Throw("Invalid PKCS#8 private key")
  ELSE [threw |-> FALSE,
        value |-> SubSeq(pkcs8, privateKey.contentStart + 1, privateKey.contentEnd)]

\* ecPrivateKeyToPkcs8(sec1)
ecPrivateKeyToPkcs8(sec1) ==
  LET version == encodeAsn1(2, <<0>>)
      algorithm == encodeAsn1(48, concat(<<encodeAsn1(6, OID_EC_PUBLIC_KEY),
                                           encodeAsn1(6, OID_PRIME256V1)>>))
      privateKey == encodeAsn1(4, sec1) IN
  encodeAsn1(48, concat(<<version, algorithm, privateKey>>))

\* The labels of PEM blocks: "PRIVATE KEY", "EC PRIVATE KEY", "PUBLIC KEY".
LABEL_PRIVATE_KEY == <<80, 82, 73, 86, 65, 84, 69, 32, 75, 69, 89>>
LABEL_EC_PRIVATE_KEY == <<69, 67, 32, 80, 82, 73, 86, 65, 84, 69, 32, 75, 69, 89>>
LABEL_PUBLIC_KEY == <<80, 85, 66, 76, 73, 67, 32, 75, 69, 89>>

\* importPrivateKeyPem that takes a block of any label for PKCS8.
importPrivateKeyPemAnyLabel(pem) ==
  LET d == decodePem(pem) IN
  IF d.threw THEN [threw |-> TRUE, error |-> d.error, importKey |-> FALSE]
  ELSE IF d.label = LABEL_EC_PRIVATE_KEY
  THEN [threw |-> FALSE, importKey |-> TRUE, pkcs8 |-> ecPrivateKeyToPkcs8(d.data)]
  ELSE [threw |-> FALSE, importKey |-> TRUE, pkcs8 |-> d.data]

\* importPrivateKeyPem(pem), to its call of importPrivateKeyRaw: it throws,
\* or hands pkcs8 to crypto.subtle.importKey('pkcs8', ...).
importPrivateKeyPem(pem) ==
  LET d == decodePem(pem) IN
  IF d.threw THEN [threw |-> TRUE, error |-> d.error, importKey |-> FALSE]
  ELSE IF d.label = LABEL_PRIVATE_KEY
  THEN [threw |-> FALSE, importKey |-> TRUE, pkcs8 |-> d.data]
  ELSE IF d.label = LABEL_EC_PRIVATE_KEY
  THEN [threw |-> FALSE, importKey |-> TRUE, pkcs8 |-> ecPrivateKeyToPkcs8(d.data)]
  ELSE [threw |-> TRUE, error |-> "Unsupported PEM block type", importKey |-> FALSE]

\* The SEC1 byte strings wrapped: none, one byte, the longest whose wrapper
\* and whose own length take one length byte (101, 127), the shortest that
\* take two (102, 128), those around three (255, 256), and one of three
\* length bytes of its own.
Sec1Lengths == {0, 1, 32, 101, 102, 121, 127, 128, 255, 256, 65536}
Sec1s == { PayloadOf(len, n) : len \in Sec1Lengths, n \in {1, 48} }

\* The elements decoded: a header and the content bytes that follow it.
\* Headers with short lengths and long ones of one to eight length bytes,
\* among them four length bytes with the high bit set and five and eight
\* bytes that declare 2^32 and more; content as long as declared and shorter;
\* a header cut before or inside its length, and the indefinite length.
Asn1Headers ==
  { <<4, 0>>, <<4, 5>>, <<4, 127>>, <<4, 129, 128>>, <<4, 130, 1, 0>>, <<4, 131, 0, 0, 5>>,
    <<4, 132, 0, 0, 0, 5>>, <<4, 132, 127, 255, 255, 255>>, <<4, 132, 128, 0, 0, 0>>,
    <<4, 132, 255, 255, 255, 255>>, <<4, 132, 255, 255, 255, 250>>,
    <<4, 133, 0, 0, 0, 0, 5>>, <<4, 133, 1, 0, 0, 0, 5>>,
    <<4, 136, 1, 0, 0, 0, 0, 0, 0, 0>>,
    <<4>>, <<4, 128>>, <<4, 130, 1>> }
Asn1ContentLengths == {0, 3, 5, 127, 128, 256}
Asn1Inputs ==
  { [bytes |-> h \o PayloadOf(n, 9), offset |-> 0] : h \in Asn1Headers, n \in Asn1ContentLengths }
  \cup { [bytes |-> <<48, 9>> \o h \o PayloadOf(n, 9), offset |-> 2] :
           h \in Asn1Headers, n \in {3, 5} }
  \cup { [bytes |-> <<4, 1, 7>>, offset |-> off] : off \in {2, 3, 4} }

\* PKCS#8-like structures: a version, an algorithm identifier and a private
\* key (nine bytes together) behind an outer SEQUENCE header that declares
\* their length, less, nothing, or more than the array holds; and structures
\* whose elements have other tags.
Pkcs8Body == <<2, 1, 0>> \o <<48, 0>> \o <<4, 2, 7, 9>>
Pkcs8Declared == {0, 2, 3, 4, 5, 8, 9, 10, 127}
Pkcs8Inputs ==
  { <<48, d>> \o Pkcs8Body : d \in Pkcs8Declared }
  \cup { <<48, 129, d>> \o Pkcs8Body : d \in {5, 9} }
  \cup { <<48, d>> \o <<2, 1, 0>> \o <<48, 0>> \o <<4, 5, 7, 9>> : d \in {5, 9} }
  \cup { <<49, 9>> \o Pkcs8Body, <<48, 9>> \o <<4, 1, 0>> \o <<48, 0>> \o <<4, 2, 7, 9>>,
         <<48, 7>> \o <<2, 1, 0>> \o <<4, 2, 7, 9>>, <<48, 5>> \o <<2, 1, 0>> \o <<48, 0>>,
         <<48>>, <<>> }

\* The PEM texts imported: blocks of the labels the import knows, with and
\* without blanks around the label, of other labels, a block whose END names
\* another label, one with text before it and lines that end in CR LF, and
\* text that is no block.
PemLabels ==
  { LABEL_PRIVATE_KEY, LABEL_EC_PRIVATE_KEY, LABEL_PUBLIC_KEY,
    <<82, 83, 65, 32, 80, 82, 73, 86, 65, 84, 69, 32, 75, 69, 89>>,
    <<69, 78, 67, 82, 89, 80, 84, 69, 68, 32, 80, 82, 73, 86, 65, 84, 69, 32, 75, 69, 89>>,
    <<112, 114, 105, 118, 97, 116, 101, 32, 107, 101, 121>>,
    LABEL_EC_PRIVATE_KEY \o <<32>>, <<32>> \o LABEL_PRIVATE_KEY }
PemDatas == { PayloadOf(len, 48) : len \in {0, 32, 121} }
PemBlock(begin, end, lines) ==
  PEM_BEGIN \o begin \o PEM_DASHES \o <<10>> \o lines \o <<10>>
    \o PEM_END \o end \o PEM_DASHES
RECURSIVE wrapLinesCrLf(_)
wrapLinesCrLf(encoded) ==
  IF Len(encoded) >= 64
  THEN SubSeq(encoded, 1, 64) \o <<13, 10>>
         \o wrapLinesCrLf(SubSeq(encoded, 65, Len(encoded)))
  ELSE encoded
PemInputs ==
  { [pem |-> arrayBufferToPem(l, d), begin |-> l, end |-> l, data |-> d] :
      l \in PemLabels, d \in PemDatas }
  \cup { [pem |-> PemBlock(l, e, wrapLines(btoa(d))), begin |-> l, end |-> e, data |-> d] :
      l \in {LABEL_PRIVATE_KEY}, e \in {LABEL_EC_PRIVATE_KEY}, d \in PemDatas }
  \cup { [pem |-> <<66, 97, 103, 32, 65, 116, 116, 114, 105, 98, 117, 116, 101, 115, 10>> \o PemBlock(l, l, wrapLinesCrLf(btoa(d))) \o <<13, 10>>,
          begin |-> l, end |-> l, data |-> d] :
      l \in {LABEL_PRIVATE_KEY, LABEL_EC_PRIVATE_KEY, LABEL_PUBLIC_KEY}, d \in PemDatas }
  \cup { [pem |-> btoa(d), begin |-> <<>>, end |-> <<>>, data |-> d] : d \in PemDatas }

\* ------------------------------------------------------------------------
\* lib/crypto.ts: public keys, and the platform's crypto.subtle for P-256
\* ------------------------------------------------------------------------

\* What the SubjectPublicKeyInfo of every P-256 key starts with, up to the
\* BIT STRING's count of unused bits.
SPKI_P256 == <<48, 89, 48, 19, 6, 7, 42, 134, 72, 206, 61, 2, 1,
    6, 8, 42, 134, 72, 206, 61, 3, 1, 7, 3, 66, 0>>

\* base64url without padding, as the platform writes the members of a JWK.
base64url(bytes) ==
  LET encoded == SelectSeq(btoa(bytes), LAMBDA ch : ch # 61) IN
  [i \in 1..Len(encoded) |->
     IF encoded[i] = 43 THEN 45 ELSE IF encoded[i] = 47 THEN 95 ELSE encoded[i]]

\* crypto.subtle.importKey(format, keyData, { name: 'ECDH', namedCurve:
\* 'P-256' }, ...) of a public key: the key, as its point.
importKey(format, keyData) ==
  IF format = "spki"
  THEN IF Len(keyData) = Len(SPKI_P256) + 65 /\ StartsWith(keyData, 1, SPKI_P256 \o <<4>>)
       THEN [threw |-> FALSE,
             key |-> [x |-> SubSeq(keyData, Len(SPKI_P256) + 2, Len(SPKI_P256) + 33),
                      y |-> SubSeq(keyData, Len(SPKI_P256) + 34, Len(SPKI_P256) + 65)]]
       ELSE Throw("DataError")
  ELSE IF Len(keyData) = 65 /\ keyData[1] = 4
       THEN [threw |-> FALSE,
             key |-> [x |-> SubSeq(keyData, 2, 33), y |-> SubSeq(keyData, 34, 65)]]
       ELSE Throw("DataError")

\* crypto.subtle.exportKey(format, key)
exportKey(format, key) ==
  IF format = "raw" THEN <<4>> \o key.x \o key.y
  ELSE IF format = "spki" THEN SPKI_P256 \o <<4>> \o key.x \o key.y
  ELSE [x |-> base64url(key.x), y |-> base64url(key.y)]

\* base64UrlToUint8 that pads and decodes the value as it is.
base64UrlToUint8AsIs(value) ==
  LET pad == Len(value) % 4
      padded == value \o (IF pad = 2 THEN <<61, 61>> ELSE IF pad = 3 THEN <<61>> ELSE <<>>) IN
  atob(padded)

\* base64UrlToUint8(value)
base64UrlToUint8(value) ==
  LET normalized == [i \in 1..Len(value) |->
                       IF value[i] = 45 THEN 43 ELSE IF value[i] = 95 THEN 47 ELSE value[i]]
      pad == Len(normalized) % 4
      padded == normalized
                  \o (IF pad = 2 THEN <<61, 61>> ELSE IF pad = 3 THEN <<61>> ELSE <<>>) IN
  atob(padded)

\* exportPublicKeyRaw(key)
exportPublicKeyRaw(key) == exportKey("raw", key)

\* exportPublicKeyFromPrivate(privateKey)
exportPublicKeyFromPrivate(privateKey) ==
  LET jwk == exportKey("jwk", privateKey)
      x == base64UrlToUint8(jwk.x)
      y == base64UrlToUint8(jwk.y) IN
  IF x.threw THEN x
  ELSE IF y.threw THEN y
  ELSE [threw |-> FALSE, value |-> <<4>> \o x.value \o y.value]

\* exportPublicKeyPem(publicKey)
exportPublicKeyPem(publicKey) ==
  arrayBufferToPem(LABEL_PUBLIC_KEY, exportKey("spki", publicKey))

\* publicKeyRawToPem(raw)
publicKeyRawToPem(raw) ==
  LET publicKey == importKey("raw", raw) IN
  IF publicKey.threw THEN publicKey
  ELSE [threw |-> FALSE, value |-> exportPublicKeyPem(publicKey.key)]

\* publicKeyPemToRaw(pem)
publicKeyPemToRaw(pem) ==
  LET d == decodePem(pem) IN
  IF d.threw THEN d
  ELSE IF d.label # LABEL_PUBLIC_KEY THEN Throw("Unsupported public key PEM block")
  ELSE LET publicKey == importKey("spki", d.data) IN
       IF publicKey.threw THEN publicKey
       ELSE [threw |-> FALSE, value |-> exportPublicKeyRaw(publicKey.key)]

\* The key pair of test/crypto.test.mjs (private scalar d, point x, y) and
\* its PUBLIC_KEY_PEM.
TEST_KEY ==
  [d |-> <<214, 93, 132, 158, 135, 89, 250, 250, 195, 186, 26, 2, 20, 208, 167, 167,
          149, 38, 13, 107, 141, 243, 89, 161, 218, 142, 69, 121, 230, 117, 7, 208>>,
   x |-> <<235, 246, 154, 172, 189, 95, 117, 13, 82, 139, 43, 216, 175, 62, 55, 248,
          70, 254, 185, 55, 245, 211, 250, 188, 189, 253, 33, 228, 33, 126, 116, 39>>,
   y |-> <<29, 28, 153, 131, 41, 114, 17, 112, 232, 107, 62, 91, 36, 69, 130, 239,
          205, 111, 28, 169, 159, 232, 48, 157, 110, 57, 177, 86, 72, 194, 84, 253>>]
PUBLIC_KEY_PEM ==
  <<45, 45, 45, 45, 45, 66, 69, 71, 73, 78, 32, 80, 85, 66, 76, 73, 67, 32, 75, 69,
    89, 45, 45, 45, 45, 45, 10, 77, 70, 107, 119, 69, 119, 89, 72, 75, 111, 90, 73, 122,
    106, 48, 67, 65, 81, 89, 73, 75, 111, 90, 73, 122, 106, 48, 68, 65, 81, 99, 68, 81,
    103, 65, 69, 54, 47, 97, 97, 114, 76, 49, 102, 100, 81, 49, 83, 105, 121, 118, 89, 114,
    122, 52, 51, 43, 69, 98, 43, 117, 84, 102, 49, 10, 48, 47, 113, 56, 118, 102, 48, 104,
    53, 67, 70, 43, 100, 67, 99, 100, 72, 74, 109, 68, 75, 88, 73, 82, 99, 79, 104, 114,
    80, 108, 115, 107, 82, 89, 76, 118, 122, 87, 56, 99, 113, 90, 47, 111, 77, 74, 49, 117,
    79, 98, 70, 87, 83, 77, 74, 85, 47, 81, 61, 61, 10, 45, 45, 45, 45, 45, 69, 78,
    68, 32, 80, 85, 66, 76, 73, 67, 32, 75, 69, 89, 45, 45, 45, 45, 45>>

\* The key pairs: the test's, and points whose coordinates start with a
\* zero byte, are all 0xff (base64 "/" throughout) or hold 0xfb (base64 "+").
\* The scalar is not used: exportKey hands out the point kept with it.
Coordinates ==
  { PayloadOf(32, 3), [i \in 1..32 |-> IF i = 1 THEN 0 ELSE (i * 29) % 256],
    [i \in 1..32 |-> 255], [i \in 1..32 |-> IF i % 3 = 1 THEN 251 ELSE 239] }
KeyPairs ==
  {TEST_KEY} \cup { [d |-> PayloadOf(32, 5), x |-> x, y |-> y] :
                     x \in Coordinates, y \in Coordinates }

\* The public-key PEM of a key pair: its SubjectPublicKeyInfo in base64,
\* in lines of 64 characters between the BEGIN and END lines.
PemOf(key) ==
  IF key = TEST_KEY THEN PUBLIC_KEY_PEM
  ELSE PemBlock(LABEL_PUBLIC_KEY, LABEL_PUBLIC_KEY,
                wrapLines(btoa(SPKI_P256 \o <<4>> \o key.x \o key.y)))

\* The white space around a PEM text: none, a final line feed, and blank
\* lines before with CR LF after.
Surroundings ==
  { [before |-> <<>>, after |-> <<>>], [before |-> <<>>, after |-> <<10>>],
    [before |-> <<10, 32>>, after |-> <<13, 10>>] }

\* A call that returns value.
Return(value) ==
  /\ ret' = [done |-> TRUE, threw |-> FALSE, value |-> value]
  /\ UNCHANGED <<args, besidesCrypto>>

\* The call of encodeMetadata.
callEncodeMetadata ==
  /\ args.op = "encodeMetadata"
  /\ ~ret.done
  /\ Return(encodeMetadata(args.metadata))

\* The call of importPrivateKeyPem: it throws, or awaits
\* crypto.subtle.importKey('pkcs8', pkcs8, ...), which takes the key or
\* rejects it.
callImportPrivateKeyPem ==
  /\ args.op = "importPrivateKeyPem"
  /\ ~ret.done
  /\ LET r == importPrivateKeyPem(args.pem) IN
     IF r.threw
     THEN ret' = [done |-> TRUE, threw |-> TRUE, error |-> r.error, importKey |-> FALSE]
     ELSE \E accepted \in BOOLEAN :
            ret' = [done |-> TRUE, threw |-> ~accepted,
                    error |-> IF accepted THEN "" ELSE "DataError",
                    importKey |-> TRUE, pkcs8 |-> r.pkcs8]
  /\ UNCHANGED <<args, besidesCrypto>>

\* The call of ecPrivateKeyToPkcs8.
callEcPrivateKeyToPkcs8 ==
  /\ args.op = "ecPrivateKeyToPkcs8"
  /\ ~ret.done
  /\ Return(ecPrivateKeyToPkcs8(args.sec1))

\* The call of pkcs8ToEcPrivateKey on the wrapper ecPrivateKeyToPkcs8
\* returned.
callPkcs8ToEcPrivateKey ==
  /\ args.op = "ecPrivateKeyToPkcs8"
  /\ ret.done
  /\ args' = [op |-> "pkcs8ToEcPrivateKey", pkcs8 |-> ret.value, sec1 |-> args.sec1]
  /\ LET r == pkcs8ToEcPrivateKey(ret.value) IN
     ret' = IF r.threw THEN [done |-> TRUE, threw |-> TRUE, error |-> r.error]
            ELSE [done |-> TRUE, threw |-> FALSE, value |-> r.value]
  /\ UNCHANGED besidesCrypto

\* What a call of a function that may throw hands back.
Outcome(r) ==
  IF r.threw THEN [done |-> TRUE, threw |-> TRUE, error |-> r.error]
  ELSE [done |-> TRUE, threw |-> FALSE, value |-> r.value]

\* The call of pkcs8ToEcPrivateKey on a structure from elsewhere.
callPkcs8ToEcPrivateKeyOn ==
  /\ args.op = "pkcs8ToEcPrivateKey of a structure"
  /\ ~ret.done
  /\ ret' = Outcome(pkcs8ToEcPrivateKey(args.pkcs8))
  /\ UNCHANGED <<args, besidesCrypto>>

\* The call of publicKeyPemToRaw on the public-key PEM of a key pair.
callPublicKeyPemToRaw ==
  /\ args.op = "publicKeyPemToRaw"
  /\ ~ret.done
  /\ ret' = Outcome(publicKeyPemToRaw(args.pem))
  /\ UNCHANGED <<args, besidesCrypto>>

\* The call of exportPublicKeyFromPrivate on the private key of the pair,
\* after publicKeyPemToRaw returned.
callExportPublicKeyFromPrivate ==
  /\ args.op = "publicKeyPemToRaw"
  /\ ret.done
  /\ ~ret.threw
  /\ args' = [op |-> "exportPublicKeyFromPrivate", key |-> args.key, pem |-> args.pem,
              rawFromPem |-> ret.value]
  /\ ret' = Outcome(exportPublicKeyFromPrivate(args.key))
  /\ UNCHANGED besidesCrypto

\* The call of publicKeyRawToPem on the bytes publicKeyPemToRaw returned.
callPublicKeyRawToPem ==
  /\ args.op = "exportPublicKeyFromPrivate"
  /\ ret.done
  /\ ~ret.threw
  /\ args' = [op |-> "publicKeyRawToPem", key |-> args.key, pem |-> args.pem,
              raw |-> args.rawFromPem, rawFromPrivate |-> ret.value]
  /\ ret' = Outcome(publicKeyRawToPem(args.rawFromPem))
  /\ UNCHANGED besidesCrypto

\* The call of decodeAsn1Element.
callDecodeAsn1Element ==
  /\ args.op = "decodeAsn1Element"
  /\ ~ret.done
  /\ LET r == decodeAsn1Element(args.bytes, args.offset) IN
     ret' = IF r.threw THEN [done |-> TRUE, threw |-> TRUE, error |-> r.error]
            ELSE [done |-> TRUE, threw |-> FALSE, value |-> r]
  /\ UNCHANGED <<args, besidesCrypto>>

\* The call of timingSafeEqual.
callTimingSafeEqual ==
  /\ args.op = "timingSafeEqual"
  /\ ~ret.done
  /\ LET r == timingSafeEqual(args.a, args.b) IN
     ret' = [done |-> TRUE, threw |-> FALSE, value |-> r.value, examined |-> r.examined]
  /\ UNCHANGED <<args, besidesCrypto>>

\* ------------------------------------------------------------------------
\* The transport: construction, and every call and event
\* ------------------------------------------------------------------------

\* The device before the first connect().
NoEvents ==
  /\ listeners = 0
  /\ gattConnected = FALSE
  /\ disconnectEvents = <<>>

\* No function of lib/crypto.ts is called.
NoCall ==
  /\ args = [op |-> "none"]
  /\ ret = [done |-> FALSE]

\* No session: no handshake was done and no command sent.
NoSession ==
  /\ sessionEpoch = 0
  /\ sendCounter = 0
  /\ initialCounter = 0
  /\ commands = <<>>

\* The page as built: Verify Enrollment was not clicked, and both buttons
\* are enabled.
NoHandler ==
  [pc |-> "idle", attempt |-> 0, calls |-> 0, timer |-> 0, outcome |-> "none",
   error |-> [attempt |-> 0, name |-> "none"]]
NoVerify ==
  /\ handlers = [h \in 1..MaxClicks |-> NoHandler]
  /\ disabled = [verifyEnrollBtn |-> FALSE, enrollBtn |-> FALSE]

\* The Latency page as created and never shown.
NoPreview ==
  /\ currentStream = 0
  /\ currentFacingMode = "environment"
  /\ isStartingPreview = FALSE
  /\ cameraSupported = TRUE
  /\ pendingGetUserMedia = FALSE
  /\ liveStreams = {}
  /\ streamsGranted = 0
  /\ pageHidden = TRUE
  /\ previewInputs = 0

\* Auto refresh when the page is built: off, no timer; the user never
\* touches it.
NoRefresh ==
  /\ autoRefreshActive = FALSE
  /\ autoRefreshTimer = 0
  /\ pendingTimers = {}
  /\ autoFetches = 0
  /\ timersSet = 0
  /\ stoppedByError = FALSE
  /\ refreshInputs = 0

InitRx ==
  /\ buffer = <<>>
  /\ lastNotification = 0
  /\ clock = 0
  /\ messages = <<>>
  /\ bufferFrom = <<>>
  /\ arrivals = <<>>
  /\ delivered = 0
  /\ stale = {}
  /\ oversized = {}

\* new TeslaBleTransport(options)
Init ==
  /\ options \in BlockLengthOptions
  /\ txChar = NullChar
  /\ rxChar = FALSE
  /\ device = FALSE
  /\ server = "null"
  /\ blockLength = WEB_BLUETOOTH_DEFAULT_BLOCK
  /\ writeMode = "with-response"
  /\ writeChain = <<>>
  /\ offset = 0
  /\ inflight = NoWrite
  /\ connectPc = "idle"
  /\ disconnectPc = "idle"
  /\ log = <<>>
  /\ lastSend = "none"
  /\ NoEvents
  /\ budget = [sends |-> MaxSends, faults |-> MaxFaults, connects |-> MaxConnects,
               disconnects |-> MaxDisconnects, fragments |-> 0]
  /\ InitRx
  /\ NoCall
  /\ NoSession
  /\ NoVerify
  /\ NoRefresh
  /\ NoPreview

Next ==
  \/ \E len \in SendLengths : send(len)
  \/ startTask
  \/ writeAccepted
  \/ \E error \in WriteErrors : writeRejected(error)
  \/ writeAborted
  \/ \E existing \in BOOLEAN : connect(existing)
  \/ connectDevice
  \/ connectServer
  \/ connectService
  \/ \E c \in Characteristics : connectTx(c)
  \/ connectRx
  \/ connectNotifications
  \/ connectFailed
  \/ disconnect
  \/ disconnectClear

Spec == Init /\ [][Next]_vars

\* The transport after connect() with options o resolved on characteristic c.
Connected(c, o) ==
  /\ options = o
  /\ txChar = c
  /\ rxChar = TRUE
  /\ device = TRUE
  /\ server = "connected"
  /\ blockLength = connectBlockLength(o)
  /\ writeMode = determineWriteMode(c)
  /\ writeChain = <<>>
  /\ offset = 0
  /\ inflight = NoWrite
  /\ connectPc = "idle"
  /\ disconnectPc = "idle"
  /\ log = <<>>
  /\ lastSend = "none"
  /\ listeners = 1
  /\ gattConnected = TRUE
  /\ disconnectEvents = <<>>

\* A connected transport that is notified of fragments and disconnected.
InitRxSpec ==
  /\ Connected(Char("true", "true", TRUE, TRUE, TRUE),
               [given |-> FALSE, preferredBlockLength |-> 0])
  /\ budget = [sends |-> 0, faults |-> 0, connects |-> 0,
               disconnects |-> MaxDisconnects, fragments |-> MaxFragments]
  /\ InitRx
  /\ NoCall
  /\ NoSession
  /\ NoVerify
  /\ NoRefresh
  /\ NoPreview

NextRx ==
  \/ \E chunk \in Fragments : \E gap \in Gaps : onNotification(chunk, gap)
  \/ disconnect
  \/ disconnectClear

SpecRx == InitRxSpec /\ [][NextRx]_vars

\* The payload lengths and block lengths of the loop: payloads of one byte,
\* of one block and one byte more at the floor, around the length that needs
\* the prefix's high byte, and of the maximum.
LoopLengths == {1, 18, 19, 255, 256, DEFAULT_MAX_MESSAGE_SIZE}
LoopOptions ==
  { [given |-> FALSE, preferredBlockLength |-> 0],
    [given |-> TRUE, preferredBlockLength |-> 20],
    [given |-> TRUE, preferredBlockLength |-> 21],
    [given |-> TRUE, preferredBlockLength |-> 64] }

\* A connected transport whose peer sends back what one error-free send
\* writes.
InitLoop ==
  /\ \E o \in LoopOptions : Connected(Char("true", "true", TRUE, TRUE, TRUE), o)
  /\ budget = [sends |-> 1, faults |-> 0, connects |-> 0, disconnects |-> 0,
               fragments |-> 0]
  /\ InitRx
  /\ NoCall
  /\ NoSession
  /\ NoVerify
  /\ NoRefresh
  /\ NoPreview

NextLoop ==
  \/ \E len \in LoopLengths : send(len)
  \/ startTask
  \/ writeAccepted
  \/ loopback

SpecLoop == InitLoop /\ [][NextLoop]_vars

\* A transport that connects to the same device again and again, and a
\* device that loses its GATT connection.
InitEvents ==
  /\ options = [given |-> FALSE, preferredBlockLength |-> 0]
  /\ txChar = NullChar
  /\ rxChar = FALSE
  /\ device = FALSE
  /\ server = "null"
  /\ blockLength = WEB_BLUETOOTH_DEFAULT_BLOCK
  /\ writeMode = "with-response"
  /\ writeChain = <<>>
  /\ offset = 0
  /\ inflight = NoWrite
  /\ connectPc = "idle"
  /\ disconnectPc = "idle"
  /\ log = <<>>
  /\ lastSend = "none"
  /\ NoEvents
  /\ budget = [sends |-> 0, faults |-> 0, connects |-> MaxReconnects,
               disconnects |-> MaxReconnects, fragments |-> 0]
  /\ InitRx
  /\ NoCall
  /\ NoSession
  /\ NoVerify
  /\ NoRefresh
  /\ NoPreview

NextEvents ==
  \/ \E existing \in BOOLEAN : connect(existing)
  \/ connectDevice
  \/ connectServer
  \/ connectService
  \/ connectTx(Char("true", "true", TRUE, TRUE, TRUE))
  \/ connectRx
  \/ connectNotifications
  \/ connectFailed
  \/ disconnect
  \/ disconnectClear
  \/ gattserverdisconnected

SpecEvents == InitEvents /\ [][NextEvents]_vars

\* The calls of the functions of lib/crypto.ts.
CryptoCalls ==
  { [op |-> "encodeMetadata", metadata |-> m] : m \in Metadatas }
    \cup { [op |-> "timingSafeEqual", a |-> a, b |-> b] : a \in Tags, b \in Tags }
    \cup { [op |-> "importPrivateKeyPem", pem |-> p.pem, begin |-> p.begin,
            end |-> p.end, data |-> p.data] : p \in PemInputs }
    \cup { [op |-> "ecPrivateKeyToPkcs8", sec1 |-> sec1] : sec1 \in Sec1s }
    \cup { [op |-> "publicKeyPemToRaw", key |-> k, pem |-> w.before \o PemOf(k) \o w.after] :
             k \in KeyPairs, w \in Surroundings }
    \cup { [op |-> "decodeAsn1Element", bytes |-> e.bytes, offset |-> e.offset] :
             e \in Asn1Inputs }
    \cup { [op |-> "pkcs8ToEcPrivateKey of a structure", pkcs8 |-> b] : b \in Pkcs8Inputs }

\* A transport that was never connected, and one call of a function of
\* lib/crypto.ts.
InitCrypto ==
  /\ \E o \in BlockLengthOptions :
       /\ options = o
       /\ txChar = NullChar
       /\ rxChar = FALSE
       /\ device = FALSE
       /\ server = "null"
       /\ blockLength = WEB_BLUETOOTH_DEFAULT_BLOCK
       /\ writeMode = "with-response"
       /\ writeChain = <<>>
       /\ offset = 0
       /\ inflight = NoWrite
       /\ connectPc = "idle"
       /\ disconnectPc = "idle"
       /\ log = <<>>
       /\ lastSend = "none"
       /\ o.given = FALSE
  /\ NoEvents
  /\ budget = [sends |-> 0, faults |-> 0, connects |-> 0, disconnects |-> 0,
               fragments |-> 0]
  /\ InitRx
  /\ args \in CryptoCalls
  /\ ret = [done |-> FALSE]
  /\ NoSession
  /\ NoVerify
  /\ NoRefresh
  /\ NoPreview

NextCrypto ==
  \/ callEncodeMetadata
  \/ callTimingSafeEqual
  \/ callImportPrivateKeyPem
  \/ callEcPrivateKeyToPkcs8
  \/ callPkcs8ToEcPrivateKey
  \/ callPublicKeyPemToRaw
  \/ callExportPublicKeyFromPrivate
  \/ callPublicKeyRawToPem
  \/ callDecodeAsn1Element
  \/ callPkcs8ToEcPrivateKeyOn

SpecCrypto == InitCrypto /\ [][NextCrypto]_vars

\* ------------------------------------------------------------------------
\* lib/session.ts: the send counter of the SessionContext
\* ------------------------------------------------------------------------

\* The counter a handshake sets: zero, or a value the peer supplies.
InitialCounters == {0, 1, 41}

\* How a sendCommand goes on: it fails before the send is queued ("early"),
\* the queued send is delivered ("sent"), or the transport rejects the
\* queued send ("failed").
Outcomes == {"early", "sent", "failed"}

\* Handshaking -> Established: the counter is set to the value supplied by
\* the peer (or zero) and the epoch recorded.
handshake(supplied) ==
  /\ sessionEpoch < MaxHandshakes
  /\ sessionEpoch' = sessionEpoch + 1
  /\ sendCounter' = supplied
  /\ initialCounter' = supplied
  /\ UNCHANGED <<commands, besidesSession>>

\* sendCommand that takes the increment back when the transport rejects the
\* queued send.
sendCommandRollsBack(outcome) ==
  /\ sessionEpoch > 0
  /\ Len(commands) < MaxCommands
  /\ commands' = Append(commands, [epoch |-> sessionEpoch, counter |-> sendCounter, outcome |-> outcome])
  /\ sendCounter' = IF outcome = "sent" THEN sendCounter + 1 ELSE sendCounter
  /\ UNCHANGED <<sessionEpoch, initialCounter, besidesSession>>

\* Established, sendCommand(payload, domain): the associated data is built
\* from the pending counter; the counter is incremented only once the send
\* is queued, and is not rolled back when the send then fails.
sendCommand(outcome) ==
  /\ sessionEpoch > 0
  /\ Len(commands) < MaxCommands
  /\ commands' = Append(commands, [epoch |-> sessionEpoch, counter |-> sendCounter, outcome |-> outcome])
  /\ sendCounter' = IF outcome = "early" THEN sendCounter ELSE sendCounter + 1
  /\ UNCHANGED <<sessionEpoch, initialCounter, besidesSession>>

\* A transport that was never connected.
NeverConnected ==
  /\ options = [given |-> FALSE, preferredBlockLength |-> 0]
  /\ txChar = NullChar
  /\ rxChar = FALSE
  /\ device = FALSE
  /\ server = "null"
  /\ blockLength = WEB_BLUETOOTH_DEFAULT_BLOCK
  /\ writeMode = "with-response"
  /\ writeChain = <<>>
  /\ offset = 0
  /\ inflight = NoWrite
  /\ connectPc = "idle"
  /\ disconnectPc = "idle"
  /\ log = <<>>
  /\ lastSend = "none"
  /\ NoEvents
  /\ budget = [sends |-> 0, faults |-> 0, connects |-> 0, disconnects |-> 0,
               fragments |-> 0]
  /\ InitRx

InitSession ==
  /\ NeverConnected
  /\ NoCall
  /\ NoSession
  /\ NoVerify
  /\ NoRefresh
  /\ NoPreview

NextSession ==
  \/ \E supplied \in InitialCounters : handshake(supplied)
  \/ \E outcome \in Outcomes : sendCommand(outcome)

SpecSession == InitSession /\ [][NextSession]_vars

\* ------------------------------------------------------------------------
\* app/ui.ts: the click handler of Verify Enrollment
\* ------------------------------------------------------------------------

\* const maxAttempts = 12
maxAttempts == 12

\* What session.ensureSession(key) rejects with.
HandshakeErrors == {"Handshake timed out", "Session info HMAC mismatch"}

\* catch (error) { reportError(...) } finally { both buttons enabled }
reported(h, error) ==
  /\ handlers' = [handlers EXCEPT ![h].pc = "done", ![h].outcome = "reported",
                                  ![h].error = error]
  /\ disabled' = [verifyEnrollBtn |-> FALSE, enrollBtn |-> FALSE]

\* A click on the button, which only an enabled button takes: the handler
\* throws without a session, and else awaits ensurePrivateKey.
click(h, hasSession) ==
  /\ handlers[h].pc = "idle"
  /\ h > 1 => handlers[h - 1].pc # "idle"
  /\ ~disabled.verifyEnrollBtn
  /\ IF ~hasSession
     THEN reported(h, [attempt |-> 0, name |-> "Select a vehicle first"])
     ELSE /\ handlers' = [handlers EXCEPT ![h].pc = "ensurePrivateKey"]
          /\ UNCHANGED disabled
  /\ UNCHANGED besidesVerify

\* ensurePrivateKey settles: with a key, both buttons are disabled and the
\* first attempt calls ensureSession; without, the handler throws.
ensurePrivateKeySettled(h, key) ==
  /\ handlers[h].pc = "ensurePrivateKey"
  /\ IF key
     THEN /\ disabled' = [verifyEnrollBtn |-> TRUE, enrollBtn |-> TRUE]
          /\ handlers' = [handlers EXCEPT ![h].pc = "ensureSession", ![h].attempt = 1,
                                          ![h].calls = 1]
     ELSE reported(h, [attempt |-> 0, name |-> "Provide a private key first"])
  /\ UNCHANGED besidesVerify

\* ensureSession resolves: the handler returns, through finally.
ensureSessionResolved(h) ==
  /\ handlers[h].pc = "ensureSession"
  /\ handlers' = [handlers EXCEPT ![h].pc = "done", ![h].outcome = "verified"]
  /\ disabled' = [verifyEnrollBtn |-> FALSE, enrollBtn |-> FALSE]
  /\ UNCHANGED besidesVerify

\* The handler that gives up one attempt early.
ensureSessionRejectedOneEarly(h, name) ==
  /\ handlers[h].pc = "ensureSession"
  /\ IF handlers[h].attempt >= maxAttempts - 1
     THEN reported(h, [attempt |-> handlers[h].attempt, name |-> name])
     ELSE /\ handlers' = [handlers EXCEPT ![h].pc = "sleep", ![h].timer = 5000]
          /\ UNCHANGED disabled
  /\ UNCHANGED besidesVerify

\* ensureSession rejects: the last attempt throws its error, any other
\* awaits sleep(5000).
ensureSessionRejected(h, name) ==
  /\ handlers[h].pc = "ensureSession"
  /\ IF handlers[h].attempt = maxAttempts
     THEN reported(h, [attempt |-> handlers[h].attempt, name |-> name])
     ELSE /\ handlers' = [handlers EXCEPT ![h].pc = "sleep", ![h].timer = 5000]
          /\ UNCHANGED disabled
  /\ UNCHANGED besidesVerify

\* The timer of sleep fires: attempt += 1, and the next attempt calls
\* ensureSession.
sleepResolved(h) ==
  /\ handlers[h].pc = "sleep"
  /\ handlers' = [handlers EXCEPT ![h].pc = "ensureSession",
                                  ![h].attempt = handlers[h].attempt + 1,
                                  ![h].calls = handlers[h].calls + 1,
                                  ![h].timer = 0]
  /\ UNCHANGED disabled
  /\ UNCHANGED besidesVerify

InitVerify ==
  /\ NeverConnected
  /\ NoCall
  /\ NoSession
  /\ NoVerify
  /\ NoRefresh
  /\ NoPreview

NextVerify ==
  \/ \E h \in 1..MaxClicks : \E hasSession \in BOOLEAN : click(h, hasSession)
  \/ \E h \in 1..MaxClicks : \E key \in BOOLEAN : ensurePrivateKeySettled(h, key)
  \/ \E h \in 1..MaxClicks : ensureSessionResolved(h)
  \/ \E h \in 1..MaxClicks : \E name \in HandshakeErrors : ensureSessionRejected(h, name)
  \/ \E h \in 1..MaxClicks : sleepResolved(h)

\* What a handler awaits settles: the key import, the handshake (in either
\* way) and the timer.
SpecVerify ==
  /\ InitVerify
  /\ [][NextVerify]_vars
  /\ \A h \in 1..MaxClicks :
       /\ WF_vars(\E key \in BOOLEAN : ensurePrivateKeySettled(h, key))
       /\ WF_vars(ensureSessionResolved(h)
                    \/ \E name \in HandshakeErrors : ensureSessionRejected(h, name))
       /\ WF_vars(sleepResolved(h))

\* ------------------------------------------------------------------------
\* app/ui.ts: auto refresh of the vehicle state
\* ------------------------------------------------------------------------

\* window.clearTimeout(autoRefreshTimer) when the handle is not null.
clearAutoRefreshTimer == pendingTimers \ {autoRefreshTimer}

\* scheduleNextAutoRefresh() after the handle became handle and the pending
\* timers became pending: a timer is set when auto refresh is active.
scheduleNextAutoRefresh(active, handle, pending) ==
  IF active
  THEN /\ timersSet < MaxTimers
       /\ timersSet' = timersSet + 1
       /\ autoRefreshTimer' = timersSet + 1
       /\ pendingTimers' = pending \cup {timersSet + 1}
  ELSE /\ autoRefreshTimer' = handle
       /\ pendingTimers' = pending
       /\ UNCHANGED timersSet

\* runAutoRefreshCycle() without its test of autoRefreshActive.
runAutoRefreshCycleUnchecked(active) == autoFetches + 1

\* runAutoRefreshCycle() to its await: when auto refresh is active the fetch
\* is started.
runAutoRefreshCycle(active) == IF active THEN autoFetches + 1 ELSE autoFetches

\* The toggle is checked, or the button clicked while auto refresh is off:
\* startAutoRefresh().
startAutoRefresh ==
  /\ refreshInputs > 0
  /\ refreshInputs' = refreshInputs - 1
  /\ IF autoRefreshActive
     THEN UNCHANGED <<autoRefreshActive, autoFetches>>
     ELSE /\ autoRefreshActive' = TRUE
          /\ autoFetches' = runAutoRefreshCycle(TRUE)
  /\ stoppedByError' = FALSE
  /\ UNCHANGED <<autoRefreshTimer, pendingTimers, timersSet>>
  /\ UNCHANGED besidesRefresh

\* The toggle is unchecked, the button clicked while auto refresh is on, or
\* a new vehicle selected: stopAutoRefresh().
stopAutoRefresh ==
  /\ refreshInputs > 0
  /\ refreshInputs' = refreshInputs - 1
  /\ autoRefreshActive' = FALSE
  /\ pendingTimers' = clearAutoRefreshTimer
  /\ autoRefreshTimer' = 0
  /\ UNCHANGED <<autoFetches, timersSet, stoppedByError>>
  /\ UNCHANGED besidesRefresh

\* The refresh interval is changed: restartAutoRefreshTimer().
restartAutoRefreshTimer ==
  /\ refreshInputs > 0
  /\ refreshInputs' = refreshInputs - 1
  /\ IF autoRefreshActive
     THEN scheduleNextAutoRefresh(TRUE, 0, clearAutoRefreshTimer)
     ELSE UNCHANGED <<autoRefreshTimer, pendingTimers, timersSet>>
  /\ UNCHANGED <<autoRefreshActive, autoFetches, stoppedByError>>
  /\ UNCHANGED besidesRefresh

\* A refresh timer expires: its callback calls runAutoRefreshCycle(). The
\* handle in autoRefreshTimer is left as it is.
timerExpired(t) ==
  /\ t \in pendingTimers
  /\ pendingTimers' = pendingTimers \ {t}
  /\ autoFetches' = runAutoRefreshCycle(autoRefreshActive)
  /\ UNCHANGED <<autoRefreshActive, autoRefreshTimer, timersSet, stoppedByError,
                 refreshInputs>>
  /\ UNCHANGED besidesRefresh

\* performVehicleStateFetch('auto') resolved: runAutoRefreshCycle calls
\* scheduleNextAutoRefresh().
fetchResolved ==
  /\ autoFetches > 0
  /\ autoFetches' = autoFetches - 1
  /\ scheduleNextAutoRefresh(autoRefreshActive, autoRefreshTimer, pendingTimers)
  /\ UNCHANGED <<autoRefreshActive, stoppedByError, refreshInputs>>
  /\ UNCHANGED besidesRefresh

\* performVehicleStateFetch('auto') rejected: runAutoRefreshCycle calls
\* stopAutoRefresh({ silent: true }).
fetchRejected ==
  /\ autoFetches > 0
  /\ autoFetches' = autoFetches - 1
  /\ autoRefreshActive' = FALSE
  /\ pendingTimers' = clearAutoRefreshTimer
  /\ autoRefreshTimer' = 0
  /\ stoppedByError' = TRUE
  /\ UNCHANGED <<timersSet, refreshInputs>>
  /\ UNCHANGED besidesRefresh

\* The debug page as built, and a user with MaxRefreshInputs inputs.
InitRefresh ==
  /\ NeverConnected
  /\ NoCall
  /\ NoSession
  /\ NoVerify
  /\ autoRefreshActive = FALSE
  /\ autoRefreshTimer = 0
  /\ pendingTimers = {}
  /\ autoFetches = 0
  /\ timersSet = 0
  /\ stoppedByError = FALSE
  /\ refreshInputs = MaxRefreshInputs
  /\ NoPreview

NextRefresh ==
  \/ startAutoRefresh
  \/ stopAutoRefresh
  \/ restartAutoRefreshTimer
  \/ \E t \in 1..MaxTimers : timerExpired(t)
  \/ fetchResolved
  \/ fetchRejected

SpecRefresh == InitRefresh /\ [][NextRefresh]_vars

\* ------------------------------------------------------------------------
\* app/ui/latency.ts: the camera preview of the Latency page
\* ------------------------------------------------------------------------

\* releaseStream(): the tracks of currentStream are stopped.
releaseStream ==
  /\ liveStreams' = liveStreams \ {currentStream}
  /\ currentStream' = 0

\* startPreview() to its await: getUserMedia is called unless the camera is
\* not supported or a preview is starting already.
startPreview ==
  IF cameraSupported /\ ~isStartingPreview
  THEN /\ isStartingPreview' = TRUE
       /\ pendingGetUserMedia' = TRUE
  ELSE UNCHANGED <<isStartingPreview, pendingGetUserMedia>>

\* A click on the start button (disabled while a preview is starting):
\* stopPreview() when a stream is held, startPreview() otherwise.
startButtonClick ==
  /\ previewInputs > 0
  /\ ~pageHidden
  /\ ~isStartingPreview
  /\ previewInputs' = previewInputs - 1
  /\ IF currentStream # 0
     THEN /\ releaseStream
          /\ UNCHANGED <<isStartingPreview, pendingGetUserMedia>>
     ELSE /\ startPreview
          /\ UNCHANGED <<currentStream, liveStreams>>
  /\ UNCHANGED <<currentFacingMode, cameraSupported, streamsGranted, pageHidden>>
  /\ UNCHANGED besidesPreview

\* A click on the flip button: the facing mode changes, and restartPreview()
\* runs stopPreview() and startPreview() when a stream is held.
flipButtonClick ==
  /\ previewInputs > 0
  /\ ~pageHidden
  /\ previewInputs' = previewInputs - 1
  /\ currentFacingMode' = IF currentFacingMode = "environment" THEN "user" ELSE "environment"
  /\ IF currentStream # 0
     THEN releaseStream /\ startPreview
     ELSE UNCHANGED <<currentStream, liveStreams, isStartingPreview, pendingGetUserMedia>>
  /\ UNCHANGED <<cameraSupported, streamsGranted, pageHidden>>
  /\ UNCHANGED besidesPreview

\* The page is hidden: onHide() calls stopPreview().
onHide ==
  /\ previewInputs > 0
  /\ ~pageHidden
  /\ previewInputs' = previewInputs - 1
  /\ pageHidden' = TRUE
  /\ releaseStream
  /\ UNCHANGED <<currentFacingMode, isStartingPreview, cameraSupported,
                 pendingGetUserMedia, streamsGranted>>
  /\ UNCHANGED besidesPreview

\* The page is shown.
pageShown ==
  /\ previewInputs > 0
  /\ pageHidden
  /\ previewInputs' = previewInputs - 1
  /\ pageHidden' = FALSE
  /\ UNCHANGED <<currentStream, currentFacingMode, isStartingPreview, cameraSupported,
                 pendingGetUserMedia, liveStreams, streamsGranted>>
  /\ UNCHANGED besidesPreview

\* getUserMedia resolved with a new stream: assignStream(stream) releases
\* the stream held and keeps the new one; finally.
getUserMediaResolved ==
  /\ pendingGetUserMedia
  /\ streamsGranted < MaxStreams
  /\ streamsGranted' = streamsGranted + 1
  /\ liveStreams' = (liveStreams \ {currentStream}) \cup {streamsGranted + 1}
  /\ currentStream' = streamsGranted + 1
  /\ pendingGetUserMedia' = FALSE
  /\ isStartingPreview' = FALSE
  /\ UNCHANGED <<currentFacingMode, cameraSupported, pageHidden, previewInputs>>
  /\ UNCHANGED besidesPreview

\* getUserMedia rejected: the catch calls releaseStream(); finally.
getUserMediaRejected ==
  /\ pendingGetUserMedia
  /\ releaseStream
  /\ pendingGetUserMedia' = FALSE
  /\ isStartingPreview' = FALSE
  /\ UNCHANGED <<currentFacingMode, cameraSupported, streamsGranted, pageHidden,
                 previewInputs>>
  /\ UNCHANGED besidesPreview

\* The Latency page as created, on a device with or without a camera API,
\* and a user with MaxPreviewInputs inputs.
InitPreview ==
  /\ NeverConnected
  /\ NoCall
  /\ NoSession
  /\ NoVerify
  /\ NoRefresh
  /\ currentStream = 0
  /\ currentFacingMode = "environment"
  /\ isStartingPreview = FALSE
  /\ cameraSupported \in BOOLEAN
  /\ pendingGetUserMedia = FALSE
  /\ liveStreams = {}
  /\ streamsGranted = 0
  /\ pageHidden = TRUE
  /\ previewInputs = MaxPreviewInputs

NextPreview ==
  \/ startButtonClick
  \/ flipButtonClick
  \/ onHide
  \/ pageShown
  \/ getUserMediaResolved
  \/ getUserMediaRejected

SpecPreview == InitPreview /\ [][NextPreview]_vars

\* ------------------------------------------------------------------------
\* Properties of send() and the write chain
\* ------------------------------------------------------------------------

\* The writes of task i that settled, and those the characteristic accepted.
Attempts(i) == {k \in DOMAIN log : log[k].task = i}
AcceptedAfter(i, k) ==
  SelectSeq(SubSeq(log, k + 1, Len(log)), LAMBDA e : e.task = i /\ e.outcome = "ok")
Accepted(i) == AcceptedAfter(i, 0)

RECURSIVE Concat(_)
Concat(entries) ==
  IF entries = <<>> THEN <<>> ELSE Head(entries).block \o Concat(Tail(entries))

\* The characteristic has a write function.
Writable(c) == c.hasWithResponse \/ c.hasWithoutResponse \/ c.hasWriteValue

\* Task i awaits a write.
Awaiting(i) == inflight.active /\ inflight.task = i

\* After the write log[k] task i made no further write attempt.
LastAttempt(k) ==
  /\ \A l \in Attempts(log[k].task) : l <= k
  /\ ~Awaiting(log[k].task)

\* The first write attempt of its task after log[k], if any, is the
\* packet's first block.
RestartsFromFirstBlock(k) ==
  LET i == log[k].task
      later == {l \in Attempts(i) : l > k} IN
  IF later # {}
  THEN log[CHOOSE l \in later : \A m \in later : l <= m].offset = 0
  ELSE Awaiting(i) => offset = 0

\* C1: messages are written in submission order, and no block of a message
\* is written before every message submitted earlier has resolved or
\* rejected: a write, settled or awaited, belongs to a task all of whose
\* predecessors on the chain have settled, and at most one task runs.
C1_SubmissionOrder ==
  /\ \A k \in DOMAIN log : \A j \in 1..(log[k].task - 1) : Settled(writeChain[j])
  /\ \A k, l \in DOMAIN log : k < l => log[k].task <= log[l].task
  /\ inflight.active =>
       /\ Running = {inflight.task}
       /\ \A j \in 1..(inflight.task - 1) : Settled(writeChain[j])
  /\ Cardinality(Running) <= 1

\* Two sends are pending at once: the first has written a block and awaits
\* its next write while the second waits on the chain.
C1_Witness ==
  /\ Len(writeChain) = 2
  /\ writeChain[2].status = "queued"
  /\ Awaiting(1)
  /\ Accepted(1) # <<>>

\* The characteristic rejected with DataError exactly the writes of task i
\* longer than 20 bytes, and accepted the others.
RejectsOver20(i) ==
  \A k \in Attempts(i) :
    log[k].outcome = IF Len(log[k].block) > 20 THEN "DataError" ELSE "ok"

\* C3: on a characteristic that rejects every write over 20 bytes with
\* DataError and accepts the others, the send of a 64-byte message resolves,
\* leaves blockLength at 20, and the accepted writes are four or more blocks
\* of at most 20 bytes that concatenate to the length prefix and the message.
C3_SettlesAt20 ==
  \A i \in DOMAIN writeChain :
    LET t == writeChain[i] IN
    (/\ Len(t.packet) = HEADER_SIZE + 64
     /\ t.steady
     /\ Writable(t.char)
     /\ RejectsOver20(i)
     /\ Settled(t))
    => /\ t.status = "resolved"
       /\ t.endBlockLength = 20
       /\ Len(Accepted(i)) >= 4
       /\ \A n \in DOMAIN Accepted(i) : Len(Accepted(i)[n].block) <= 20
       /\ Concat(Accepted(i)) = t.packet

\* A 64-byte message went out on such a characteristic from a block length
\* over 20: its first write was rejected, and the send resolved.
C3_Witness ==
  \E i \in DOMAIN writeChain :
    /\ Len(writeChain[i].packet) = HEADER_SIZE + 64
    /\ writeChain[i].steady
    /\ RejectsOver20(i)
    /\ writeChain[i].status = "resolved"
    /\ \E k \in Attempts(i) : log[k].outcome = "DataError" /\ log[k].blockLength > 64

\* A write of log[k] failed with DataError while blockLength was over the floor.
OversizeAboveFloor(k) ==
  log[k].outcome = "DataError" /\ log[k].blockLength > MIN_BLOCK_LENGTH

\* C4 as stated: a DataError above the floor halves blockLength (not below
\* the floor) and the message is retried from its first block.
C4_Halves ==
  \A k \in DOMAIN log :
    OversizeAboveFloor(k) =>
      /\ log[k].retry
      /\ log[k].thenBlockLength = Max(MIN_BLOCK_LENGTH, log[k].blockLength \div 2)
      /\ RestartsFromFirstBlock(k)

\* C4, amended: a DataError above the floor sets blockLength to the floor at
\* once and the message is retried from its first block; a DataError that
\* follows in the same send meets the floor and is not retried.
C4_DropsToFloor ==
  \A k \in DOMAIN log :
    OversizeAboveFloor(k) =>
      /\ log[k].retry
      /\ log[k].thenBlockLength = MIN_BLOCK_LENGTH
      /\ RestartsFromFirstBlock(k)
      /\ \A l \in Attempts(log[k].task) :
           (l > k /\ log[l].outcome = "DataError" /\ writeChain[log[k].task].steady)
           => ~log[l].retry /\ LastAttempt(l)

\* A DataError above the floor on a block after the first, and the next
\* write of that send has settled.
C4_Witness ==
  \E k \in DOMAIN log :
    /\ OversizeAboveFloor(k)
    /\ log[k].offset > 0
    /\ \E l \in Attempts(log[k].task) : l > k

\* The only write of task i the characteristic rejected is log[k].
OnlyFailure(i, k) ==
  /\ k \in Attempts(i)
  /\ \A l \in Attempts(i) : l # k => log[l].outcome = "ok"

\* C5: after a DataError above 20, with every other write of the send
\* accepted, blockLength is 20 and the send resolves, the characteristic
\* having accepted after the error the whole packet from its first byte.
C5_ResendsWholePacket ==
  \A i \in DOMAIN writeChain : \A k \in DOMAIN log :
    LET t == writeChain[i] IN
    (t.steady /\ OnlyFailure(i, k) /\ OversizeAboveFloor(k))
    => /\ log[k].thenBlockLength = 20
       /\ t.status # "rejected"
       /\ ~Settled(t) => blockLength = 20
       /\ t.status = "resolved" =>
            /\ t.endBlockLength = 20
            /\ Concat(AcceptedAfter(i, k)) = t.packet

\* A send resolved after one DataError above 20, re-sending in several
\* blocks a packet whose first block had been accepted before the error.
C5_Witness ==
  \E i \in DOMAIN writeChain : \E k \in DOMAIN log :
    /\ writeChain[i].steady
    /\ OnlyFailure(i, k)
    /\ OversizeAboveFloor(k)
    /\ log[k].offset > 0
    /\ writeChain[i].status = "resolved"
    /\ Len(AcceptedAfter(i, k)) >= 2

\* C6: a DataError at the 20-byte floor rejects the send with that error,
\* no further write is attempted for the message, and blockLength stays 20.
C6_FloorRejects ==
  \A k \in DOMAIN log :
    (log[k].outcome = "DataError" /\ log[k].blockLength <= MIN_BLOCK_LENGTH)
    => /\ ~log[k].retry
       /\ log[k].blockLength = 20
       /\ log[k].thenBlockLength = 20
       /\ writeChain[log[k].task].status = "rejected"
       /\ writeChain[log[k].task].error = "DataError"
       /\ writeChain[log[k].task].endBlockLength = 20
       /\ LastAttempt(k)

\* A DataError at the floor, after an earlier DataError brought the same
\* send down to it.
C6_Witness ==
  \E k, l \in DOMAIN log :
    /\ l < k
    /\ log[l].task = log[k].task
    /\ OversizeAboveFloor(l)
    /\ log[k].outcome = "DataError"
    /\ log[k].blockLength = MIN_BLOCK_LENGTH

OtherMode(mode) == IF mode = "with-response" THEN "without-response" ELSE "with-response"
SupportsMode(c, mode) ==
  IF mode = "with-response" THEN supportsWriteWithResponse(c)
  ELSE supportsWriteWithoutResponse(c)
ModeFunction(mode) ==
  IF mode = "with-response" THEN "writeValueWithResponse" ELSE "writeValueWithoutResponse"

\* Every write of task i after log[k] was accepted.
AcceptedFrom(i, k) == \A l \in Attempts(i) : l > k => log[l].outcome = "ok"

\* C7: a NotSupportedError in the active mode, on a characteristic that
\* supports the other mode, switches writeMode to the other mode and retries;
\* with the writes of the retry accepted the send resolves, the whole packet
\* written in the new mode, and writeMode is the new mode when it ends.
C7_FallsBackToOtherMode ==
  \A k \in DOMAIN log :
    LET i == log[k].task
        t == writeChain[i]
        new == OtherMode(log[k].writeMode) IN
    (/\ log[k].outcome = "NotSupportedError"
     /\ t.steady
     /\ SupportsMode(t.char, new))
    => /\ log[k].retry
       /\ log[k].thenWriteMode = new
       /\ RestartsFromFirstBlock(k)
       /\ AcceptedFrom(i, k) =>
            /\ t.status # "rejected"
            /\ ~Settled(t) => writeMode = new
            /\ \A l \in Attempts(i) :
                 l > k => log[l].writeMode = new /\ log[l].fn = ModeFunction(new)
            /\ t.status = "resolved" =>
                 /\ t.endWriteMode = new
                 /\ Concat(AcceptedAfter(i, k)) = t.packet

\* A send of several blocks resolved in the other mode after a
\* NotSupportedError in the mode it started in.
C7_Witness ==
  \E k \in DOMAIN log :
    LET i == log[k].task IN
    /\ log[k].outcome = "NotSupportedError"
    /\ writeChain[i].steady
    /\ SupportsMode(writeChain[i].char, OtherMode(log[k].writeMode))
    /\ AcceptedFrom(i, k)
    /\ writeChain[i].status = "resolved"
    /\ Len(AcceptedAfter(i, k)) >= 2

\* C8: within one send, a write mode that failed with NotSupportedError is
\* not tried again: once both modes have failed the send rejects.
C8_EachModeTriedOnce ==
  \A k \in DOMAIN log :
    LET i == log[k].task IN
    (log[k].outcome = "NotSupportedError" /\ writeChain[i].steady)
    => /\ \A l \in Attempts(i) : l > k => log[l].writeMode # log[k].writeMode
       /\ Awaiting(i) => writeMode # log[k].writeMode

\* C9: a write error that is neither DataError nor NotSupportedError
\* rejects the send with that error, without a retry and without a change
\* to blockLength or writeMode.
C9_OtherErrorsReject ==
  \A k \in DOMAIN log :
    log[k].outcome \notin {"ok", "DataError", "NotSupportedError"}
    => /\ ~log[k].retry
       /\ log[k].thenBlockLength = log[k].blockLength
       /\ log[k].thenWriteMode = log[k].writeMode
       /\ writeChain[log[k].task].status = "rejected"
       /\ writeChain[log[k].task].error = log[k].outcome
       /\ writeChain[log[k].task].endBlockLength = log[k].blockLength
       /\ writeChain[log[k].task].endWriteMode = log[k].writeMode
       /\ LastAttempt(k)

\* A NetworkError on a block after the first, above the floor, on a
\* characteristic that supports both modes: nothing was there to stop a retry.
C9_Witness ==
  \E k \in DOMAIN log :
    /\ log[k].outcome = "NetworkError"
    /\ log[k].offset > 0
    /\ log[k].blockLength > MIN_BLOCK_LENGTH
    /\ supportsWriteWithResponse(txChar) /\ supportsWriteWithoutResponse(txChar)

\* ------------------------------------------------------------------------
\* Properties of the reassembly
\* ------------------------------------------------------------------------

\* C2: the blocks of an error-free send of a payload of 1 to
\* DEFAULT_MAX_MESSAGE_SIZE bytes, delivered in order to an empty buffer,
\* give no message before the last block and, with the last block, exactly
\* one message, equal to the payload, and an empty buffer.
C2_RoundTrip ==
  IF writeChain # <<>> /\ writeChain[1].status = "resolved" /\ delivered = Len(Wire)
  THEN /\ Len(messages) = 1
       /\ messages[1].detail = writeChain[1].payload
       /\ buffer = <<>>
  ELSE messages = <<>>

\* A payload of the maximum length, written in blocks of 21 bytes, came
\* back whole.
C2_Witness ==
  /\ writeChain # <<>>
  /\ writeChain[1].status = "resolved"
  /\ Len(writeChain[1].payload) = DEFAULT_MAX_MESSAGE_SIZE
  /\ blockLength = 21
  /\ delivered = Len(Wire)
  /\ Len(messages) = 1

\* No two of the fragments of S are separated by a silence over the threshold.
GapConnected(S) ==
  \A a, b \in S :
    a < b => \A k \in (a + 1)..b : arrivals[k] - arrivals[k - 1] <= DEFAULT_RX_TIMEOUT_MS

\* C10: a fragment that arrives more than DEFAULT_RX_TIMEOUT_MS after the one
\* before it is appended to an emptied buffer: neither the buffer nor any
\* message dispatched holds bytes of two fragments with such a silence
\* between them.
C10_StaleBufferDropped ==
  /\ GapConnected({bufferFrom[j] : j \in DOMAIN bufferFrom})
  /\ \A n \in DOMAIN messages : GapConnected(messages[n].from)

\* Buffered bytes were dropped as stale, and a message was then put
\* together from two later fragments.
C10_Witness ==
  \E n \in DOMAIN messages :
    /\ Cardinality(messages[n].from) >= 2
    /\ \E d \in stale : \A f \in messages[n].from : d < f

\* The frames at the head of buf from position pos on: how many are whole
\* and within the maximum, and whether the prefix after them declares more
\* than the maximum.
RECURSIVE WholeFrames(_, _)
WholeFrames(buf, pos) ==
  IF Len(buf) - pos < 2 THEN [frames |-> 0, oversize |-> FALSE]
  ELSE LET declared == buf[pos + 1] * 256 + buf[pos + 2] IN
       IF declared > DEFAULT_MAX_MESSAGE_SIZE THEN [frames |-> 0, oversize |-> TRUE]
       ELSE IF Len(buf) - pos < 2 + declared THEN [frames |-> 0, oversize |-> FALSE]
       ELSE LET w == WholeFrames(buf, pos + 2 + declared) IN
            [frames |-> 1 + w.frames, oversize |-> w.oversize]

\* chunk is one whole frame within the maximum.
WellFormed(chunk) ==
  /\ Len(chunk) >= 2
  /\ chunk[1] * 256 + chunk[2] <= DEFAULT_MAX_MESSAGE_SIZE
  /\ Len(chunk) = 2 + chunk[1] * 256 + chunk[2]

\* The notification of chunk, gap after the one before: the frames ahead of
\* a prefix that declares more than the maximum are dispatched, and the
\* whole buffer is then emptied; a whole frame notified when the buffer is
\* empty is dispatched.
OversizeStep(chunk, gap) ==
  LET merged == (IF clock + gap - lastNotification > DEFAULT_RX_TIMEOUT_MS
                 THEN <<>> ELSE buffer) \o chunk
      w == WholeFrames(merged, 0) IN
  /\ w.oversize =>
       /\ buffer' = <<>>
       /\ Len(messages') = Len(messages) + w.frames
  /\ (buffer = <<>> /\ WellFormed(chunk)) =>
       /\ Len(messages') = Len(messages) + 1
       /\ messages'[Len(messages')].detail = SubSeq(chunk, 3, Len(chunk))
       /\ buffer' = <<>>

\* C11: when the prefix at the head of the buffer declares more than
\* DEFAULT_MAX_MESSAGE_SIZE, the whole buffer is emptied and no message is
\* dispatched for that frame or after it; no message longer than the maximum
\* is ever dispatched, the buffer never keeps such a prefix at its head, and
\* a whole frame notified to the emptied buffer is dispatched.
C11_OversizeDropsBuffer ==
  /\ [](/\ \A n \in DOMAIN messages : Len(messages[n].detail) <= DEFAULT_MAX_MESSAGE_SIZE
        /\ Len(buffer) >= 2 => buffer[1] * 256 + buffer[2] <= DEFAULT_MAX_MESSAGE_SIZE)
  /\ [][\A chunk \in Fragments \ {<<>>} : \A gap \in Gaps :
          onNotification(chunk, gap) => OversizeStep(chunk, gap)]_vars

\* The frame ahead of a prefix over the maximum was dispatched, the buffer
\* was emptied on that prefix, and the frame in the fragment after that one
\* was dispatched.
C11_Witness ==
  \E k \in oversized :
    /\ \E n \in DOMAIN messages : messages[n].from = {k} /\ messages[n].detail = <<>>
    /\ \E n \in DOMAIN messages : messages[n].from = {k + 1} /\ messages[n].detail = <<5>>
    /\ buffer = <<>>

\* ------------------------------------------------------------------------
\* Properties of the limits: the maximum message size and the block length
\* ------------------------------------------------------------------------

\* The length a frame's first block declares.
Declared(block) == block[1] * 256 + block[2]

\* C12: send() of a payload longer than DEFAULT_MAX_MESSAGE_SIZE rejects
\* with no block written and with the write chain, blockLength and
\* writeMode as they were; no task chained and no first block written or
\* awaited declares more than the maximum.
C12_OversizeSendRejected ==
  /\ [](/\ \A i \in DOMAIN writeChain :
             /\ Len(writeChain[i].payload) <= DEFAULT_MAX_MESSAGE_SIZE
             /\ Declared(writeChain[i].packet) <= DEFAULT_MAX_MESSAGE_SIZE
        /\ \A k \in DOMAIN log :
             log[k].offset = 0 => Declared(log[k].block) <= DEFAULT_MAX_MESSAGE_SIZE
        /\ (inflight.active /\ offset = 0) =>
             Declared(inflight.block) <= DEFAULT_MAX_MESSAGE_SIZE)
  /\ [][\A len \in SendLengths :
          (len > DEFAULT_MAX_MESSAGE_SIZE /\ send(len)) =>
            /\ lastSend' \in {NotReady, "Payload too large"}
            /\ txChar.present => lastSend' = "Payload too large"
            /\ UNCHANGED <<writeChain, blockLength, writeMode, log, inflight, offset>>]_vars

\* A payload over the maximum was rejected on a connected transport while an
\* earlier send awaited a write.
C12_Witness ==
  /\ lastSend = "Payload too large"
  /\ txChar.present
  /\ inflight.active
  /\ budget.sends = 0

\* C13: whatever preferredBlockLength is configured, also one below
\* MIN_BLOCK_LENGTH, blockLength is at least MIN_BLOCK_LENGTH in every state
\* of the transport, through connect(), send(), the recovery from write
\* errors and disconnect().
C13_AtLeastFloor == blockLength >= MIN_BLOCK_LENGTH

\* A transport configured with a preferredBlockLength below the floor
\* connected with blockLength at the floor, and a write at that block length
\* was then rejected with DataError.
C13_Witness ==
  /\ options.given
  /\ options.preferredBlockLength < MIN_BLOCK_LENGTH
  /\ blockLength = MIN_BLOCK_LENGTH
  /\ \E k \in DOMAIN log :
       /\ log[k].outcome = "DataError"
       /\ log[k].blockLength = MIN_BLOCK_LENGTH
       /\ ~log[k].retry

\* C14: once connect() has set it, blockLength is at most the cap
\* WEB_BLUETOOTH_DEFAULT_BLOCK, also when a larger preferredBlockLength is
\* configured.
C14_AtMostCap == rxChar => blockLength <= WEB_BLUETOOTH_DEFAULT_BLOCK

\* ------------------------------------------------------------------------
\* Properties of lib/crypto.ts
\* ------------------------------------------------------------------------

\* The four bytes of the number modulo 2^32, lowest first.
LittleEndian4(n) ==
  <<n.lo % 256, n.lo \div 256, (n.hi % 65536) % 256, (n.hi % 65536) \div 256>>

\* C15: encodeMetadata returns the counter modulo 2^32 as 4 bytes, lowest
\* first (also for a counter of 2^31 or more), then the epoch's bytes, then
\* the bytes of the VIN, and nothing else.
C15_CounterEpochVin ==
  (args.op = "encodeMetadata" /\ ret.done) =>
    /\ ~ret.threw
    /\ ret.value = LittleEndian4(args.metadata.counter) \o args.metadata.epoch
                     \o TextEncode(args.metadata.vin)
    /\ Len(ret.value) = 4 + Len(args.metadata.epoch) + Len(TextEncode(args.metadata.vin))

\* A counter with its top bit set, 0x800000ff, was encoded with a 16-byte epoch and a VIN.
C15_Witness ==
  /\ args.op = "encodeMetadata"
  /\ ret.done
  /\ args.metadata.counter = Number(32768, 255)
  /\ args.metadata.vin = <<53, 89, 74, 51>>
  /\ SubSeq(ret.value, 1, 4) = <<255, 0, 0, 128>>
  /\ Len(ret.value) = 24

\* C16: the associated data is a function of counter, epoch and expiry:
\* the same metadata encodes to the same bytes, and metadata that differs
\* only in expiresAt encodes to different bytes.
C16_ExpiryInAssociatedData ==
  (args.op = "encodeMetadata" /\ ret.done) =>
    /\ ret.value = encodeMetadata(args.metadata)
    /\ \A x \in Expiries :
         x # args.metadata.expiresAt =>
           encodeMetadata([args.metadata EXCEPT !.expiresAt = x]) # ret.value

\* C17: timingSafeEqual returns true exactly when the arrays have the same
\* length and the same bytes, and for arrays of the same length it reads
\* every position, wherever they first differ and whether they differ or
\* not.
C17_NoEarlyExit ==
  (args.op = "timingSafeEqual" /\ ret.done) =>
    /\ ret.value = (/\ Len(args.a) = Len(args.b)
                    /\ \A i \in 1..Len(args.a) : args.a[i] = args.b[i])
    /\ Len(args.a) = Len(args.b) => ret.examined = Len(args.a)

\* Arrays of the greatest length that differ in their first byte alone were
\* compared.
C17_Witness ==
  /\ args.op = "timingSafeEqual"
  /\ ret.done
  /\ Len(args.a) = MaxTagLength
  /\ Len(args.b) = MaxTagLength
  /\ args.a[1] # args.b[1]
  /\ \A i \in 2..MaxTagLength : args.a[i] = args.b[i]
  /\ ~ret.value

\* C18: importPrivateKeyPem hands the bytes of a block labelled PRIVATE KEY
\* to the PKCS8 import as they are, wraps the bytes of a block labelled
\* EC PRIVATE KEY into PKCS8 before the import, and throws on every other
\* text, another label included, without calling the import (blanks around
\* a label aside).
C18_LabelsImported ==
  (args.op = "importPrivateKeyPem" /\ ret.done) =>
    LET label == trim(args.begin)
        block == Len(args.begin) > 0 /\ args.begin = args.end IN
    IF block /\ label = LABEL_PRIVATE_KEY
    THEN ret.importKey /\ ret.pkcs8 = args.data
    ELSE IF block /\ label = LABEL_EC_PRIVATE_KEY
    THEN /\ ret.importKey
         /\ ret.pkcs8 # args.data
         /\ ret.pkcs8[1] = 48
         /\ \E k \in 3..6 :
              StartsWith(ret.pkcs8, k,
                         <<2, 1, 0, 48, 19, 6, 7>> \o OID_EC_PUBLIC_KEY \o <<6, 8>>
                           \o OID_PRIME256V1 \o <<4>>)
         /\ SubSeq(ret.pkcs8, Len(ret.pkcs8) - Len(args.data) + 1, Len(ret.pkcs8))
              = args.data
    ELSE ret.threw /\ ~ret.importKey

\* A block labelled EC PRIVATE KEY, with text before it and lines that end
\* in CR LF, was wrapped and imported.
C18_Witness ==
  /\ args.op = "importPrivateKeyPem"
  /\ ret.done
  /\ args.begin = LABEL_EC_PRIVATE_KEY
  /\ args.pem[1] # 45
  /\ Len(args.data) = 121
  /\ ret.importKey
  /\ ~ret.threw

\* C19: pkcs8ToEcPrivateKey returns, of the wrapper ecPrivateKeyToPkcs8
\* built for a SEC1 byte string of any length, that byte string, also when
\* the lengths in the wrapper take two, three or four bytes.
C19_UnwrapOfWrap ==
  (args.op = "pkcs8ToEcPrivateKey" /\ ret.done) =>
    /\ ~ret.threw
    /\ ret.value = args.sec1

\* A SEC1 byte string of 65536 bytes came back from its wrapper, whose
\* lengths take four bytes.
C19_Witness ==
  /\ args.op = "pkcs8ToEcPrivateKey"
  /\ ret.done
  /\ Len(args.sec1) = 65536
  /\ SubSeq(args.pkcs8, 1, 2) = <<48, 131>>
  /\ ~ret.threw

\* C20: for every P-256 key pair, publicKeyPemToRaw of its public-key PEM
\* returns the uncompressed point, 0x04 followed by X and Y, and so does
\* exportPublicKeyFromPrivate of its private key; publicKeyRawToPem of those
\* bytes returns the PEM that was given, up to the white space around it.
UncompressedPoint(key) == <<4>> \o key.x \o key.y
C20_PublicKeyRoundTrip ==
  /\ args.op = "publicKeyPemToRaw" /\ ret.done
       => ~ret.threw /\ ret.value = UncompressedPoint(args.key)
  /\ args.op = "exportPublicKeyFromPrivate" /\ ret.done
       => /\ ~ret.threw
          /\ ret.value = args.rawFromPem
          /\ ret.value = UncompressedPoint(args.key)
  /\ args.op = "publicKeyRawToPem" /\ ret.done
       => /\ ~ret.threw
          /\ args.raw = args.rawFromPrivate
          /\ trim(ret.value) = trim(args.pem)

\* The round trip has ended for a key whose JWK members hold "_" and "-",
\* with a PEM that had white space around it.
C20_Witness ==
  /\ args.op = "publicKeyRawToPem"
  /\ ret.done
  /\ ~ret.threw
  /\ args.raw = args.rawFromPrivate
  /\ Len(args.raw) = 65
  /\ \E i \in DOMAIN exportKey("jwk", args.key).x : exportKey("jwk", args.key).x[i] = 95
  /\ \E i \in DOMAIN exportKey("jwk", args.key).y : exportKey("jwk", args.key).y[i] = 45
  /\ ret.value # args.pem
  /\ trim(ret.value) = trim(args.pem)

\* The test's own key pair and PEM went through the round trip.
C20_WitnessTestKey ==
  /\ args.op = "publicKeyRawToPem"
  /\ ret.done
  /\ args.key = TEST_KEY
  /\ ret.value = PUBLIC_KEY_PEM

\* ------------------------------------------------------------------------
\* Properties of the session counter
\* ------------------------------------------------------------------------

\* The sendCommands of the current epoch with one of the outcomes.
CommandsWith(outcomes) ==
  { i \in DOMAIN commands : commands[i].epoch = sessionEpoch /\ commands[i].outcome \in outcomes }

BoundedAttempts(h) ==
  /\ handlers[h].calls <= maxAttempts
  /\ handlers[h].calls = handlers[h].attempt
  /\ handlers[h].pc = "sleep" => handlers[h].timer = 5000 /\ handlers[h].attempt < maxAttempts
  /\ handlers[h].outcome = "reported" /\ handlers[h].calls > 0
       => handlers[h].calls = maxAttempts /\ handlers[h].error.attempt = maxAttempts
EndsEnabled(h) ==
  /\ handlers[h].pc = "done" => handlers'[h] = handlers[h]
  /\ handlers[h].pc # "done" /\ handlers'[h].pc = "done"
       => /\ ~disabled'.verifyEnrollBtn
          /\ ~disabled'.enrollBtn
          /\ handlers'[h].calls = handlers[h].calls
C22_BoundedRetries ==
  /\ [](\A h \in 1..MaxClicks : BoundedAttempts(h))
  /\ [][\A h \in 1..MaxClicks : EndsEnabled(h)]_vars
  /\ \A h \in 1..MaxClicks : handlers[h].pc # "idle" ~> handlers[h].pc = "done"

\* One click ended after twelve failed attempts with the error of the
\* twelfth reported, another after its third attempt succeeded, and both
\* buttons are enabled.
C22_Witness ==
  /\ handlers[1].pc = "done"
  /\ handlers[1].outcome = "reported"
  /\ handlers[1].calls = 12
  /\ handlers[1].error = [attempt |-> 12, name |-> "Handshake timed out"]
  /\ handlers[2].pc = "done"
  /\ handlers[2].outcome = "verified"
  /\ handlers[2].calls = 3
  /\ ~disabled.verifyEnrollBtn
  /\ ~disabled.enrollBtn

\* ------------------------------------------------------------------------
\* Properties of retries, disconnection and the queue
\* ------------------------------------------------------------------------

\* C23: for every send that resolves, on whichever block a recoverable
\* error occurred, the blocks the characteristic accepted during that send,
\* in order, are exactly the 2-byte length prefix followed by the payload:
\* no block accepted before a retry is written a second time. (Stated for
\* the sends during which the transport was neither connected nor
\* disconnected.)
C23_AcceptedOnce ==
  \A i \in DOMAIN writeChain :
    writeChain[i].status = "resolved" /\ writeChain[i].steady
      => Concat(Accepted(i)) = writeChain[i].packet

\* The payloads of the whole frames at the head of buf, in stream order, up
\* to a frame that is not whole or declares more than the maximum.
RECURSIVE FramePayloads(_)
FramePayloads(buf) ==
  IF Len(buf) < 2 THEN <<>>
  ELSE LET declared == buf[1] * 256 + buf[2] IN
       IF declared > DEFAULT_MAX_MESSAGE_SIZE \/ Len(buf) < 2 + declared THEN <<>>
       ELSE <<SubSeq(buf, 3, 2 + declared)>>
              \o FramePayloads(SubSeq(buf, 3 + declared, Len(buf)))

\* The notification of chunk dispatches, in stream order, every whole frame
\* of the buffer with chunk appended, and nothing else.
EmitsWholeFrames(chunk, gap) ==
  LET merged == (IF clock + gap - lastNotification > DEFAULT_RX_TIMEOUT_MS
                 THEN <<>> ELSE buffer) \o chunk
      payloads == FramePayloads(merged) IN
  /\ Len(messages') = Len(messages) + Len(payloads)
  /\ \A n \in DOMAIN payloads :
       /\ messages'[Len(messages) + n].detail = payloads[n]
       /\ Len(arrivals) + 1 \in messages'[Len(messages) + n].from
  /\ SubSeq(messages', 1, Len(messages)) = messages

\* C24: after each fragment is handled, every whole frame the buffer held
\* has been dispatched in stream order during that call, and what remains
\* in the buffer is shorter than the 2-byte prefix or shorter than 2 plus
\* the length its prefix declares.
C24_NoWholeFrameLeft ==
  /\ [](Len(buffer) < 2 \/ Len(buffer) < 2 + buffer[1] * 256 + buffer[2])
  /\ [][\A chunk \in Fragments \ {<<>>} : \A gap \in Gaps :
          onNotification(chunk, gap) => EmitsWholeFrames(chunk, gap)]_vars

\* One fragment ended a frame begun in earlier fragments, held a second
\* whole frame and began a third: both messages were dispatched in order from that fragment and the
\* byte of the third stays in the buffer.
C24_Witness ==
  \E n \in DOMAIN messages :
    /\ n + 1 \in DOMAIN messages
    /\ messages[n].detail = <<5>>
    /\ messages[n + 1].detail = <<6>>
    /\ \E k \in messages[n].from : messages[n + 1].from = {k} /\ k = Len(arrivals)
    /\ Cardinality(messages[n].from) >= 2
    /\ buffer = <<0>>

\* ------------------------------------------------------------------------
\* Properties of the ASN.1 reader
\* ------------------------------------------------------------------------

\* The element at offset off of bytes has a whole header (tag, and a short
\* length or a long one with all its length bytes).
WholeHeader(bytes, off) ==
  /\ off + 2 <= Len(bytes)
  /\ bytes[off + 2] >= 128 =>
       /\ bytes[off + 2] > 128
       /\ off + 2 + (bytes[off + 2] - 128) <= Len(bytes)

\* The length bytes of that header, most significant first (the one byte
\* of a short length).
LengthBytes(bytes, off) ==
  IF bytes[off + 2] < 128 THEN <<bytes[off + 2]>>
  ELSE SubSeq(bytes, off + 3, off + 2 + (bytes[off + 2] - 128))

\* The content that header declares extends past the end of bytes: the
\* number its length bytes write, read without any width, is more than the
\* bytes that follow the header. (No input is as long as 2^24 bytes.)
DeclaredPastEnd(bytes, off) ==
  LET lb == LengthBytes(bytes, off)
      n == Len(lb)
      after == Len(bytes) - off - 1 - (IF bytes[off + 2] < 128 THEN 1 ELSE 1 + n)
      low == [k \in 1..3 |-> IF n - 3 + k >= 1 THEN lb[n - 3 + k] ELSE 0] IN
  \/ \E k \in 1..(n - 3) : lb[k] # 0
  \/ low[1] * 65536 + low[2] * 256 + low[3] > after

\* C25: decodeAsn1Element throws a parse error for every element whose
\* declared content length extends past the end of the input, whatever the
\* length encoding, long forms of four and more length bytes included; it
\* never returns an element with a negative length or with contentEnd
\* beyond the input.
C25_RejectsPastEnd ==
  (args.op = "decodeAsn1Element" /\ ret.done) =>
    /\ (WholeHeader(args.bytes, args.offset) /\ DeclaredPastEnd(args.bytes, args.offset))
         => ret.threw
    /\ ~ret.threw =>
         /\ ret.value.length >= 0
         /\ ret.value.contentEnd <= Len(args.bytes)
         /\ ret.value.contentEnd = ret.value.contentStart + ret.value.length

\* An element pkcs8ToEcPrivateKey reads (the version, then the algorithm
\* identifier, then the private key, each read when the one before has its
\* tag) ends beyond the content the outer SEQUENCE declares.
ReadsBeyondRoot(pkcs8) ==
  LET root == decodeAsn1Element(pkcs8, 0) IN
  /\ ~root.threw
  /\ root.tag = 48
  /\ LET version == decodeAsn1Element(pkcs8, root.contentStart) IN
     /\ ~version.threw
     /\ \/ version.contentEnd > root.contentEnd
        \/ /\ version.tag = 2
           /\ LET algorithm == decodeAsn1Element(pkcs8, version.contentEnd) IN
              /\ ~algorithm.threw
              /\ \/ algorithm.contentEnd > root.contentEnd
                 \/ /\ algorithm.tag = 48
                    /\ LET privateKey == decodeAsn1Element(pkcs8, algorithm.contentEnd) IN
                       /\ ~privateKey.threw
                       /\ privateKey.contentEnd > root.contentEnd

\* C29: pkcs8ToEcPrivateKey throws, and returns no key bytes, whenever the
\* version, the algorithm identifier or the private key it reads does not lie
\* within the declared content of the outer SEQUENCE.
C29_RejectsBeyondRoot ==
  (/\ args.op = "pkcs8ToEcPrivateKey of a structure"
   /\ ret.done
   /\ ReadsBeyondRoot(args.pkcs8)) => ret.threw

\* ------------------------------------------------------------------------
\* Properties of disconnect() and of the queue after a failure
\* ------------------------------------------------------------------------

\* A write is started in this step.
WriteStarts == inflight'.active /\ (inflight' # inflight \/ log' # log)

\* Task i settles in this step.
Settles(i) == ~Settled(writeChain[i]) /\ Settled(writeChain'[i])

\* C26 as stated: once disconnect() has cleared the TX characteristic, and
\* until a later connect() sets one, every send that was queued or in
\* flight rejects, and no further block is written.
C26_AllReject ==
  [][~txChar.present =>
       /\ ~WriteStarts
       /\ \A i \in DOMAIN writeChain : Settles(i) => writeChain'[i].status = "rejected"]_vars

\* After disconnect() cleared the TX characteristic, the send in flight,
\* which had blocks left to write, and the send queued behind it both
\* rejected with the transport not ready.
C26_Witness ==
  /\ ~txChar.present
  /\ Len(writeChain) = 2
  /\ writeChain[1].status = "rejected"
  /\ writeChain[1].error = NotReady
  /\ writeChain[2].status = "rejected"
  /\ writeChain[2].error = NotReady
  /\ Len(Accepted(1)) = 1
  /\ Len(writeChain[1].packet) > Len(log[1].block)
  /\ Accepted(2) = <<>>
  /\ ~inflight.active

\* The last write task i attempted.
LastOf(i) == CHOOSE k \in Attempts(i) : \A l \in Attempts(i) : l <= k

\* C27: a send that rejected does not block the queue. A send chained after
\* it starts once nothing runs before it; on a transport that stays connected
\* it is attempted (it makes a write of its own); and it settles on its own
\* outcome: resolved after its own last write was accepted, rejected with the
\* error of its own last write or with the error its own writePacketOnce
\* threw, never with the error of the send that failed before it for that
\* reason alone.
C27_FailureDoesNotBlock ==
  \A i \in DOMAIN writeChain : \A j \in DOMAIN writeChain :
    (i < j /\ writeChain[i].status = "rejected") =>
      LET t == writeChain[j] IN
      /\ (t.status = "queued" /\ Running = {} /\ FirstQueued = j) => ENABLED startTask
      /\ (Settled(t) /\ t.steady /\ Writable(t.char)) => Attempts(j) # {}
      /\ t.status = "resolved" =>
           /\ Attempts(j) # {}
           /\ log[LastOf(j)].outcome = "ok"
      /\ t.status = "rejected" =>
           \/ t.error \in {NotReady, NoWriteSupport}
           \/ /\ Attempts(j) # {}
              /\ log[LastOf(j)].outcome = t.error

\* The first send rejected with the error of a write; the second, chained
\* behind it on the transport still connected, wrote its packet and resolved.
C27_Witness ==
  /\ Len(writeChain) = 2
  /\ writeChain[1].status = "rejected"
  /\ writeChain[1].error \in WriteErrors
  /\ writeChain[2].status = "resolved"
  /\ writeChain[2].steady
  /\ Concat(Accepted(2)) = writeChain[2].packet

\* Both sends rejected, each with the error of its own write.
C27_WitnessBothFail ==
  /\ Len(writeChain) = 2
  /\ writeChain[1].status = "rejected"
  /\ writeChain[2].status = "rejected"
  /\ writeChain[2].steady
  /\ writeChain[1].error \in WriteErrors
  /\ writeChain[2].error \in WriteErrors
  /\ writeChain[1].error # writeChain[2].error

\* C28: at most one auto-refresh cycle exists: the automatic fetches in
\* flight and the pending refresh timers are never more than one together.
C28_OneCycle == autoFetches + Cardinality(pendingTimers) <= 1

\* C30: each GATT disconnection dispatches exactly one disconnect event,
\* however many times connect() was called with the same device.
C30_OneEventPerDisconnection ==
  \A i \in DOMAIN disconnectEvents : disconnectEvents[i] = 1

\* ------------------------------------------------------------------------
\* Properties of the Latency page and of auto refresh after a failure
\* ------------------------------------------------------------------------

\* C31: whenever the Latency page is hidden no camera stream stays open: no
\* MediaStream is held and none has live tracks, also when onHide() ran
\* while a getUserMedia request of startPreview() was pending and the request
\* resolves afterwards.
C31_NoStreamWhileHidden ==
  pageHidden => (currentStream = 0 /\ liveStreams = {})

\* C32: when an automatic fetch fails auto refresh is switched off:
\* autoRefreshActive is false from the failure until the user starts auto
\* refresh again, and in that time no automatic fetch is started, whatever
\* timers and fetches of the loop were pending at the failure.
C32_FailureSwitchesOff ==
  [][/\ stoppedByError' => ~autoRefreshActive'
     /\ (stoppedByError /\ stoppedByError') => autoFetches' <= autoFetches]_vars

\* An automatic fetch failed while another was in flight and a timer of the
\* loop was pending; both are still there, and auto refresh is off.
C32_Witness ==
  /\ stoppedByError
  /\ ~autoRefreshActive
  /\ autoFetches > 0
  /\ pendingTimers # {}

\* After the failure the timer that was pending has expired and the fetch
\* that was in flight has completed: nothing of the loop is left.
C32_WitnessDrained ==
  /\ stoppedByError
  /\ ~autoRefreshActive
  /\ autoFetches = 0
  /\ pendingTimers = {}
  /\ autoRefreshTimer = 0
  /\ timersSet >= 2
  /\ refreshInputs = 0

====
